---- MODULE Spec2Model ----
(***************************************************************************)
(* Model of the two Cloud Functions of the F1 2026 Fan Hub                 *)
(* (functions/index.js): the scheduled sync job syncF1Data and the chat    *)
(* proxy askF1Expert, together with the client read path of the Standings  *)
(* page (src/pages/Standings.jsx, src/firebase/firestore.js).              *)
(*                                                                         *)
(* JavaScript strings that the code formats or parses (round numbers,      *)
(* document keys) are sequences of one-character strings, so that          *)
(* String(), Number() and padStart() are computed, not assumed.            *)
(***************************************************************************)
EXTENDS Integers, Sequences, FiniteSets

VARIABLES
    provider,    \* the Jolpica API's current data: [round, rows]
    runs,        \* number of syncF1Data invocations started so far
    pc,          \* pc[i]: position of syncF1Data invocation i
    fetched,     \* fetched[i][s]: settlement of the fetchJSON promise of source s
    batch,       \* batch[i]: the writes staged in invocation i's WriteBatch
    err,         \* err[i]: what the invocation's catch block re-threw
    store,       \* Firestore: document path -> document data
    clock,       \* Firestore server clock (source of serverTimestamp)
    written,     \* written[k]: the paths written by the commit stamped k
    seen,        \* seen[k]: the provider data the commit stamped k was built from
    timer,       \* timer[i][s]: the abort timer of the fetchJSON call of source s
    reader,      \* the Standings page: its effect's two getDoc reads
    served,      \* number of askF1Expert requests received so far
    req,         \* the askF1Expert request being handled
    handler,     \* the askF1Expert handler: position, uid, calls made
    res,         \* the askF1Expert response: status, headers, body
    users,       \* Firestore users collection: uid -> profile document
    session,     \* session[c]: position of signInWithGoogle in browser session c
    gate,        \* the app shell: Firebase Auth, AuthProvider's state, the screen
    section,     \* the CommentSection of the RaceDetail page
    commentDocs, \* Firestore comments: documents, addDoc calls in flight, listeners
    page,        \* the Predictions page
    predictionDocs, \* Firestore predictions: documents, addDoc calls in flight
    detail,      \* the RaceDetail page: its read of the race's result
    chat,        \* the ChatBot component: its state and its calls in flight
    memory       \* the user's chat memory in Firestore, and the saves in flight

syncVars == <<provider, runs, pc, fetched, batch, err, store, clock, written,
              seen, timer>>
proxyVars == <<served, req, handler, res>>
authVars == <<users, session>>
sectionVars == <<section, commentDocs>>
pageVars == <<page, predictionDocs>>
chatVars == <<chat, memory>>
clientVars == <<gate, section, commentDocs, page, predictionDocs, detail, chat, memory>>
vars == <<provider, runs, pc, fetched, batch, err, store, clock, written,
          seen, timer, reader, served, req, handler, res, users, session, gate,
          section, commentDocs, page, predictionDocs, detail, chat, memory>>

(***************************************************************************)
(* Bounds                                                                  *)
(***************************************************************************)
MaxRuns == 2
MaxRound == 10
MaxRows == 2
MaxRequests == 2
MaxParts == 3
MaxRepeatChunks == 3
MaxFreshChunks == 5
MaxPending == 3
MaxMounts == 2
MaxSubs == 3
MaxWrites == 2
MaxTurns == 23
MaxLoads == 2
MaxQueue == 2

\* the scheduler fires once a day: one invocation is in progress at a time
Invocations == {"scheduled"}

\* a scheduled run and a manual re-run of the handler can be in progress together
Overlapping == {"scheduled", "manual"}

(***************************************************************************)
(* Program constants                                                       *)
(***************************************************************************)
SEASON == 2026

ServerTimestamp == 0

Sources == {"results", "drivers", "constructors"}

(***************************************************************************)
(* JavaScript string helpers                                               *)
(***************************************************************************)
Digit(d) == CASE d = 0 -> "0" [] d = 1 -> "1" [] d = 2 -> "2" [] d = 3 -> "3"
              [] d = 4 -> "4" [] d = 5 -> "5" [] d = 6 -> "6" [] d = 7 -> "7"
              [] d = 8 -> "8" [] d = 9 -> "9"

DigitValue(c) == CASE c = "0" -> 0 [] c = "1" -> 1 [] c = "2" -> 2 [] c = "3" -> 3
                   [] c = "4" -> 4 [] c = "5" -> 5 [] c = "6" -> 6 [] c = "7" -> 7
                   [] c = "8" -> 8 [] c = "9" -> 9

RECURSIVE StringOf(_)
\* String(n) / template interpolation of a non-negative integer
StringOf(n) == IF n < 10 THEN <<Digit(n)>>
               ELSE StringOf(n \div 10) \o <<Digit(n % 10)>>

RECURSIVE Number(_)
\* Number(s) for a string of decimal digits
Number(s) == IF Len(s) = 0 THEN 0
             ELSE 10 * Number(SubSeq(s, 1, Len(s) - 1)) + DigitValue(s[Len(s)])

RECURSIVE PadStart(_, _, _)
\* s.padStart(n, c) for a one-character filler c
PadStart(s, n, c) == IF Len(s) >= n THEN s ELSE PadStart(<<c>> \o s, n, c)

(***************************************************************************)
(* The provider (Jolpica F1 API): environment of the sync job              *)
(***************************************************************************)
Codes == {"VER", "HAM"}

ConstructorOf(code) == IF code = "VER" THEN "Red Bull" ELSE "Ferrari"

PointsFor(position) == IF position = 1 THEN 25 ELSE 18

\* classifications the provider may report: 1..MaxRows distinct drivers, in order
RowLists == UNION {{s \in [1..n -> Codes] : \A a, b \in 1..n : a # b => s[a] # s[b]}
                       : n \in 1..MaxRows}

\* rounds the provider reports: a one-digit round and the last round, MaxRound
ProviderRounds == {1, MaxRound}

RaceName(round) == <<"R">> \o StringOf(round)

ProviderRace(p) ==
    [season   |-> StringOf(SEASON),
     round    |-> StringOf(p.round),
     raceName |-> RaceName(p.round),
     Results  |-> [k \in 1..Len(p.rows) |->
                     [position    |-> StringOf(k),
                      Driver      |-> [code |-> p.rows[k]],
                      Constructor |-> [name |-> ConstructorOf(p.rows[k])],
                      points      |-> StringOf(PointsFor(k))]]]

ProviderDriverList(p) ==
    [season |-> StringOf(SEASON),
     round  |-> StringOf(p.round),
     DriverStandings |-> [k \in 1..Len(p.rows) |->
                     [position     |-> StringOf(k),
                      Driver       |-> [code |-> p.rows[k]],
                      Constructors |-> <<[name |-> ConstructorOf(p.rows[k])]>>,
                      points       |-> StringOf(PointsFor(k))]]]

ProviderConstructorList(p) ==
    [season |-> StringOf(SEASON),
     round  |-> StringOf(p.round),
     ConstructorStandings |-> [k \in 1..Len(p.rows) |->
                     [position    |-> StringOf(k),
                      Constructor |-> [name |-> ConstructorOf(p.rows[k])],
                      points      |-> StringOf(PointsFor(k))]]]

\* a 2xx JSON body of the endpoint of source s that carries the list `items`
Body(s, items) ==
    IF s = "results"
    THEN [MRData |-> [RaceTable |-> [Races |-> items]]]
    ELSE [MRData |-> [StandingsTable |-> [StandingsLists |-> items]]]

\* a 2xx JSON body without the expected structure, e.g. {}
MalformedBody == [message |-> "unexpected"]

\* the 2xx bodies the endpoint of source s can answer with
Bodies(s, p) ==
    { MalformedBody, Body(s, <<>>),
      Body(s, <<CASE s = "results"      -> ProviderRace(p)
                  [] s = "drivers"      -> ProviderDriverList(p)
                  [] s = "constructors" -> ProviderConstructorList(p)>>) }

(***************************************************************************)
(* syncF1Data: extraction and transformation                               *)
(***************************************************************************)
\* resultsData?.MRData?.RaceTable?.Races ?? []
Races(data) ==
    IF "MRData" \in DOMAIN data /\ "RaceTable" \in DOMAIN data.MRData
    THEN data.MRData.RaceTable.Races ELSE <<>>

\* data?.MRData?.StandingsTable?.StandingsLists ?? []
StandingsLists(data) ==
    IF "MRData" \in DOMAIN data /\ "StandingsTable" \in DOMAIN data.MRData
    THEN data.MRData.StandingsTable.StandingsLists ELSE <<>>

\* the key without the zero padding
DocIdUnpadded(round) == StringOf(SEASON) \o <<"_">> \o round

\* `${SEASON}_${String(race.round).padStart(2, '0')}`
DocId(round) == StringOf(SEASON) \o <<"_">> \o PadStart(round, 2, "0")

ResultsPath(id) == [coll |-> "results", id |-> id]
DriversPath == [coll |-> "standings", id |-> <<"d", "r", "i", "v", "e", "r", "s">>]
ConstructorsPath ==
    [coll |-> "standings",
     id |-> <<"c", "o", "n", "s", "t", "r", "u", "c", "t", "o", "r", "s">>]

ResultRow(r) ==
    [position    |-> Number(r.position),
     driverCode  |-> r.Driver.code,
     constructor |-> r.Constructor.name,
     points      |-> Number(r.points)]

RaceDoc(race) ==
    [season    |-> Number(race.season),
     round     |-> Number(race.round),
     raceName  |-> race.raceName,
     results   |-> [k \in 1..Len(race.Results) |-> ResultRow(race.Results[k])],
     updatedAt |-> ServerTimestamp]

DriverEntry(s) ==
    [position    |-> Number(s.position),
     driverCode  |-> s.Driver.code,
     constructor |-> IF Len(s.Constructors) > 0 THEN s.Constructors[1].name ELSE "-",
     points      |-> Number(s.points)]

DriverStandingsDoc(list) ==
    [season    |-> Number(list.season),
     round     |-> Number(list.round),
     standings |-> [k \in 1..Len(list.DriverStandings) |-> DriverEntry(list.DriverStandings[k])],
     updatedAt |-> ServerTimestamp]

ConstructorEntry(s) ==
    [position |-> Number(s.position),
     name     |-> s.Constructor.name,
     points   |-> Number(s.points)]

ConstructorStandingsDoc(list) ==
    [season    |-> Number(list.season),
     round     |-> Number(list.round),
     standings |-> [k \in 1..Len(list.ConstructorStandings) |-> ConstructorEntry(list.ConstructorStandings[k])],
     updatedAt |-> ServerTimestamp]

\* a results section that writes a placeholder document when there is no race
StageResultsPlaceholder(resultsData) ==
    IF Len(Races(resultsData)) > 0
    THEN <<[path |-> ResultsPath(DocId(Races(resultsData)[1].round)),
            data |-> RaceDoc(Races(resultsData)[1])]>>
    ELSE <<[path |-> ResultsPath(DocId(<<"0">>)),
            data |-> [season |-> SEASON, round |-> 0, raceName |-> <<>>,
                      results |-> <<>>, updatedAt |-> ServerTimestamp]]>>

\* batch.set(ref, data) calls of the three sections, in program order
StageResults(resultsData) ==
    IF Len(Races(resultsData)) > 0
    THEN <<[path |-> ResultsPath(DocId(Races(resultsData)[1].round)),
            data |-> RaceDoc(Races(resultsData)[1])]>>
    ELSE <<>>

\* a drivers section that writes an empty snapshot when the response holds no list
StageDriversPlaceholder(driverData) ==
    IF Len(StandingsLists(driverData)) > 0
    THEN <<[path |-> DriversPath,
            data |-> DriverStandingsDoc(StandingsLists(driverData)[1])]>>
    ELSE <<[path |-> DriversPath,
            data |-> [season |-> SEASON, round |-> 0, standings |-> <<>>,
                      updatedAt |-> ServerTimestamp]]>>

StageDrivers(driverData) ==
    IF Len(StandingsLists(driverData)) > 0
    THEN <<[path |-> DriversPath,
            data |-> DriverStandingsDoc(StandingsLists(driverData)[1])]>>
    ELSE <<>>

StageConstructors(constructorData) ==
    IF Len(StandingsLists(constructorData)) > 0
    THEN <<[path |-> ConstructorsPath,
            data |-> ConstructorStandingsDoc(StandingsLists(constructorData)[1])]>>
    ELSE <<>>

StageBatch(resultsData, driverData, constructorData) ==
    StageResults(resultsData) \o StageDrivers(driverData)
        \o StageConstructors(constructorData)

(***************************************************************************)
(* Firestore                                                               *)
(***************************************************************************)
\* an add() in place of the set(): every write creates a document of its own
SetDocAddingDocument(st, path, data, now) ==
    [q \in DOMAIN st \cup {[path EXCEPT !.id = @ \o StringOf(now)]} |->
        IF q \in DOMAIN st THEN st[q] ELSE [data EXCEPT !.updatedAt = now]]

\* a set that keeps the entries of an existing document and appends the new ones
SetDocKeepingEntries(st, path, data, now) ==
    [q \in DOMAIN st \cup {path} |->
        IF q # path THEN st[q]
        ELSE IF path \in DOMAIN st /\ "standings" \in DOMAIN data
             THEN [data EXCEPT !.updatedAt = now,
                               !.standings = st[path].standings \o @]
             ELSE [data EXCEPT !.updatedAt = now]]

\* set(ref, data) without merge: the document becomes exactly `data`, with the
\* serverTimestamp sentinel resolved to the commit time
SetDoc(st, path, data, now) ==
    [q \in DOMAIN st \cup {path} |->
        IF q = path THEN [data EXCEPT !.updatedAt = now] ELSE st[q]]

\* a commit that applies the staged writes one by one and stops after the first
ApplyBatchFirstOnly(st, b, now) ==
    IF Len(b) = 0 THEN st ELSE SetDoc(st, b[1].path, b[1].data, now)

RECURSIVE ApplyBatch(_, _, _)
\* an accepted commit applies every staged write at one commit time
ApplyBatch(st, b, now) ==
    IF Len(b) = 0 THEN st
    ELSE ApplyBatch(SetDoc(st, b[1].path, b[1].data, now), Tail(b), now)

BatchPaths(b) == {b[k].path : k \in 1..Len(b)}

(***************************************************************************)
(* syncF1Data: the invocation                                              *)
(***************************************************************************)
Pending == [status |-> "pending"]
Rejected == [status |-> "rejected"]
Fulfilled(v) == [status |-> "fulfilled", value |-> v]

AllFulfilled(f) == \A s \in Sources : f[s].status = "fulfilled"

\* fetchJSON's finally block without the clearTimeout call
LeaveTimer(t) == t

\* fetchJSON's finally block: clearTimeout(timer), whichever way the fetch ended
ClearTimeout(t) == "cleared"

\* the scheduler (or a manual re-run) invokes the handler: the three fetches start
Invoke(i) ==
    /\ pc[i] \in {"idle", "done", "failed"}
    /\ runs < MaxRuns
    /\ runs' = runs + 1
    /\ pc' = [pc EXCEPT ![i] = "fetching"]
    /\ fetched' = [fetched EXCEPT ![i] = [s \in Sources |-> Pending]]
    /\ batch' = [batch EXCEPT ![i] = <<>>]
    /\ err' = [err EXCEPT ![i] = "none"]
    /\ timer' = [timer EXCEPT ![i] = [s \in Sources |-> "armed"]]
    /\ UNCHANGED <<provider, store, clock, written, seen, reader, proxyVars, authVars, clientVars>>

\* fetchJSON of source s returns a 2xx JSON body; when it is the last of the three,
\* Promise.all resolves and the handler stages the batch and requests the commit
FetchFulfil(i, s) ==
    /\ pc[i] \in {"fetching", "failed"}
    /\ fetched[i][s] = Pending
    /\ \E body \in Bodies(s, provider) :
         LET f == [fetched[i] EXCEPT ![s] = Fulfilled(body)] IN
         /\ fetched' = [fetched EXCEPT ![i] = f]
         /\ IF pc[i] = "fetching" /\ AllFulfilled(f)
            THEN /\ batch' = [batch EXCEPT ![i] =
                        StageBatch(f["results"].value, f["drivers"].value,
                                   f["constructors"].value)]
                 /\ pc' = [pc EXCEPT ![i] = "committing"]
            ELSE UNCHANGED <<batch, pc>>
    /\ timer' = [timer EXCEPT ![i][s] = ClearTimeout(timer[i][s])]
    /\ UNCHANGED <<provider, runs, err, store, clock, written, seen, reader,
                   proxyVars, authVars, clientVars>>

\* fetchJSON of source s throws (abort after the timeout, or a non-2xx status):
\* Promise.all rejects, the catch block logs and re-throws
FetchReject(i, s) ==
    /\ pc[i] \in {"fetching", "failed"}
    /\ fetched[i][s] = Pending
    /\ fetched' = [fetched EXCEPT ![i][s] = Rejected]
    /\ IF pc[i] = "fetching"
       THEN /\ pc' = [pc EXCEPT ![i] = "failed"]
            /\ err' = [err EXCEPT ![i] = "fetch"]
       ELSE UNCHANGED <<pc, err>>
    /\ timer' = [timer EXCEPT ![i][s] = ClearTimeout(timer[i][s])]
    /\ UNCHANGED <<provider, runs, batch, store, clock, written, seen, reader,
                   proxyVars, authVars, clientVars>>

\* batch.commit() resolves: every staged write is applied atomically
CommitAccept(i) ==
    /\ pc[i] = "committing"
    /\ store' = ApplyBatch(store, batch[i], clock)
    /\ written' = Append(written, BatchPaths(batch[i]))
    /\ clock' = clock + 1
    /\ pc' = [pc EXCEPT ![i] = "done"]
    /\ seen' = Append(seen, provider)
    /\ UNCHANGED <<provider, runs, fetched, batch, err, timer, reader, proxyVars, authVars, clientVars>>

\* batch.commit() rejects: nothing is applied, the catch block logs and re-throws
CommitReject(i) ==
    /\ pc[i] = "committing"
    /\ pc' = [pc EXCEPT ![i] = "failed"]
    /\ err' = [err EXCEPT ![i] = "commit"]
    /\ UNCHANGED <<provider, runs, fetched, batch, store, clock, written, seen, timer,
                   reader, proxyVars, authVars, clientVars>>

\* the provider publishes a later round, whatever the sync job is doing
ProviderPublish ==
    /\ \E r \in ProviderRounds, rows \in RowLists :
         /\ r > provider.round
         /\ provider' = [round |-> r, rows |-> rows]
    /\ UNCHANGED <<runs, pc, fetched, batch, err, store, clock, written, seen, timer, reader,
                   proxyVars, authVars, clientVars>>

\* between the daily runs the provider publishes a later round, or revises the
\* classification of the current one (changes after the last run are not
\* followed: no fetch is left to see them)
ProviderAdvance ==
    /\ runs < MaxRuns
    /\ \A i \in Invocations : pc[i] \notin {"fetching", "committing"}
    /\ \E r \in ProviderRounds, rows \in RowLists :
         /\ r >= provider.round
         /\ [round |-> r, rows |-> rows] # provider
         /\ provider' = [round |-> r, rows |-> rows]
    /\ UNCHANGED <<runs, pc, fetched, batch, err, store, clock, written, seen, timer, reader,
                   proxyVars, authVars, clientVars>>

(***************************************************************************)
(* The Standings page (client): two independent getDoc reads               *)
(***************************************************************************)
StandingsTypes == {"drivers", "constructors"}

StandingsPath(type) == IF type = "drivers" THEN DriversPath ELSE ConstructorsPath

Null == [exists |-> FALSE]

\* getStandings(type): snap.exists() ? snap.data() : null
getStandings(st, type) ==
    IF StandingsPath(type) \in DOMAIN st
    THEN [exists |-> TRUE, data |-> st[StandingsPath(type)]]
    ELSE Null

Unmounted ==
    [mounted |-> FALSE, loading |-> TRUE,
     reads |-> [t \in StandingsTypes |-> Pending],
     drivers |-> Null, constructors |-> Null]

\* first render: useEffect starts both getStandings calls
Mount ==
    /\ ~reader.mounted
    /\ reader' = [reader EXCEPT !.mounted = TRUE]
    /\ UNCHANGED <<syncVars, proxyVars, authVars, clientVars>>

\* one getDoc resolves against the store as it is now; when it is the second one,
\* Promise.all resolves and the callback sets drivers, constructors and loading
ReadResolve(type) ==
    /\ reader.mounted
    /\ reader.reads[type] = Pending
    /\ LET r == [reader.reads EXCEPT ![type] = Fulfilled(getStandings(store, type))] IN
       reader' =
         IF \A t \in StandingsTypes : r[t].status = "fulfilled"
         THEN [reader EXCEPT !.reads = r, !.loading = FALSE,
                             !.drivers = r["drivers"].value,
                             !.constructors = r["constructors"].value]
         ELSE [reader EXCEPT !.reads = r]
    /\ UNCHANGED <<syncVars, proxyVars, authVars, clientVars>>

(***************************************************************************)
(* askF1Expert: requests                                                   *)
(***************************************************************************)
ALLOWED_ORIGINS ==
    <<"https://f1.vanemmerik.ai", "https://f1-fan-hub-b9098.web.app",
      "https://f1-fan-hub-b9098.firebaseapp.com", "http://localhost:5173">>

\* Array.prototype.includes
Includes(arr, x) == \E k \in 1..Len(arr) : arr[k] = x

\* the request carries no Origin header: req.headers.origin is undefined
NoOrigin == "undefined"

Origins ==
    {ALLOWED_ORIGINS[k] : k \in 1..Len(ALLOWED_ORIGINS)}
        \cup {"https://evil.example", "https://f1.vanemmerik.ai.evil.example", NoOrigin}

Methods == {"OPTIONS", "POST", "GET"}

BearerPrefix == <<"B", "e", "a", "r", "e", "r", " ">>

\* Authorization header values: absent, another scheme, a lower-case scheme, a
\* bearer header with a genuine token, with a forged one, and with no token
AuthHeaders ==
    { <<>>,
      <<"B", "a", "s", "i", "c", " ", "g">>,
      <<"b", "e", "a", "r", "e", "r", " ", "g">>,
      BearerPrefix \o <<"g">>,
      BearerPrefix \o <<"x">>,
      BearerPrefix }

\* the ID tokens Firebase Auth accepts, and the uid each one decodes to
ValidTokens == {<<"g">>}

UidOf(token) == "uid-1"

\* String.prototype.startsWith and slice(n)
StartsWith(s, prefix) == Len(s) >= Len(prefix) /\ SubSeq(s, 1, Len(prefix)) = prefix

Slice(s, n) == SubSeq(s, n + 1, Len(s))

\* JavaScript values of req.body.messages
Undefined == [t |-> "undefined"]
Str(v) == [t |-> "string", v |-> v]
Arr(v) == [t |-> "array", v |-> v]

Turn(role, text) == [role |-> role, text |-> text]

MessagesInputs ==
    { Undefined, Str(""), Str("hello"), Arr(<<>>),
      Arr(<<Turn("user", "q1")>>),
      Arr(<<Turn("user", "q1"), Turn("model", "a1"), Turn("user", "q2")>>) }

Requests ==
    [method : Methods, origin : Origins, authorization : AuthHeaders,
     messages : MessagesInputs]

\* what chat.sendMessage can resolve to: no candidate, or one candidate
ModelResponses ==
    { [candidates |-> <<>>],
      [candidates |-> <<[content |-> [parts |-> <<[text |-> <<"H", "i">>],
                                                  [text |-> <<"!">>]>>]]>>] }

\* The text of a model reply is a sequence of lexemes: words, white space, the
\* fence delimiters and the JSON tokens of a fact marker.
SP == " "
NL == "\n"
\* the opening and closing delimiters of a fence: three backquotes followed by
\* json, and three backquotes
FenceOpen == "<fence>json"
Fence == "<fence>"
MarkerOpen == "{\"newFacts\":"
StringLiterals == {"\"likes Ferrari\"", "\"lives in Monaco\""}

Words == <<"H", "i">>

\* {"newFacts": [...]} with the given elements
RawMarker(elements) == <<MarkerOpen, SP, "[">> \o elements \o <<"]", "}">>

\* a ```json fence around the given content
Fenced(content) == <<FenceOpen, NL>> \o content \o <<NL, Fence>>

OneFact == <<"\"likes Ferrari\"">>
TwoFacts == <<"\"likes Ferrari\"", ",", SP, "\"lives in Monaco\"">>

\* trailing markers that are well formed, each with the array it carries
WellFormedMarkers ==
    { [text |-> RawMarker(OneFact), facts |-> <<"\"likes Ferrari\"">>],
      [text |-> RawMarker(<<>>), facts |-> <<>>],
      [text |-> Fenced(RawMarker(TwoFacts)),
       facts |-> <<"\"likes Ferrari\"", "\"lives in Monaco\"">>] }

\* trailing markers that are malformed: a trailing comma, a fence around prose, a
\* fence around JSON without an array under newFacts, a raw marker whose newFacts
\* is a string, an empty fence
MalformedMarkers ==
    { RawMarker(<<"\"likes Ferrari\"", ",">>),
      Fenced(Words),
      Fenced(<<MarkerOpen, SP, "\"likes Ferrari\"", "}">>),
      <<MarkerOpen, SP, "\"likes Ferrari\"", "}">>,
      <<FenceOpen, NL, Fence>> }

PartTexts ==
    {Words, <<NL>>} \cup {m.text : m \in WellFormedMarkers} \cup MalformedMarkers

RECURSIVE SeqsUpTo(_, _)
\* the sequences over S of length at most n
SeqsUpTo(S, n) ==
    IF n = 0 THEN {<<>>}
    ELSE LET shorter == SeqsUpTo(S, n - 1) IN
         shorter \cup {Append(x, e) : x \in shorter, e \in S}

\* grounding chunks: a web chunk with URI and title, one without title, one
\* without URI, and a chunk of another kind
Uri(k) == <<"u">> \o StringOf(k)
WebChunk(uri, title) == [web |-> [uri |-> uri, title |-> title]]
OtherChunk == [retrievedContext |-> [uri |-> Uri(0)]]
RepeatableChunks ==
    {WebChunk(Uri(1), <<"t">>), WebChunk(Uri(2), <<>>), WebChunk(<<>>, <<"t">>), OtherChunk}

\* k chunks with URIs of their own
FreshChunks(k) == [j \in 1..k |-> WebChunk(Uri(2 + j), <<"t">>)]

ChunkLists ==
    UNION { {x \o FreshChunks(k), FreshChunks(k) \o x} :
              x \in SeqsUpTo(RepeatableChunks, MaxRepeatChunks), k \in 0..MaxFreshChunks }

Candidate(parts, chunks) ==
    [content |-> [parts |-> [k \in 1..Len(parts) |-> [text |-> parts[k]]]],
     groundingMetadata |-> [groundingChunks |-> chunks]]

\* what chat.sendMessage can resolve to in a chat that uses fact markers and
\* search grounding
ChatResponses ==
    {[candidates |-> <<>>]}
      \cup {[candidates |-> <<Candidate(parts, <<>>)>>] :
              parts \in SeqsUpTo(PartTexts, MaxParts) \ {<<>>}}
      \cup {[candidates |-> <<Candidate(<<Words>>, chunks)>>] : chunks \in ChunkLists}

\* authenticated POSTs from the app
ChatRequests ==
    {r \in Requests : /\ r.method = "POST"
                      /\ r.origin = ALLOWED_ORIGINS[1]
                      /\ r.authorization = BearerPrefix \o <<"g">>}

(***************************************************************************)
(* askF1Expert: the handler                                                *)
(***************************************************************************)
NoRequest == [method |-> "none"]

NoResponse == [status |-> 0, headers |-> [h \in {} |-> ""], body |-> [none |-> TRUE]]

Idle == [pc |-> "idle", uid |-> "null", verifyCalls |-> 0, modelCalls |-> 0,
         chat |-> [none |-> TRUE], result |-> [none |-> TRUE]]

\* res.set(name, value)
SetHeader(headers, name, value) ==
    [h \in DOMAIN headers \cup {name} |-> IF h = name THEN value ELSE headers[h]]

\* CORS headers that reflect whatever Origin the request carries
CorsHeadersReflecting(origin) ==
    SetHeader(
      SetHeader(
        SetHeader(
          SetHeader([h \in {} |-> ""], "Access-Control-Allow-Origin", origin),
          "Access-Control-Allow-Methods", "POST, OPTIONS"),
        "Access-Control-Allow-Headers", "Content-Type, Authorization"),
      "Access-Control-Max-Age", "3600")

\* the CORS block at the top of the handler
CorsHeaders(origin) ==
    SetHeader(
      SetHeader(
        SetHeader(
          IF Includes(ALLOWED_ORIGINS, origin)
          THEN SetHeader([h \in {} |-> ""], "Access-Control-Allow-Origin", origin)
          ELSE [h \in {} |-> ""],
          "Access-Control-Allow-Methods", "POST, OPTIONS"),
        "Access-Control-Allow-Headers", "Content-Type, Authorization"),
      "Access-Control-Max-Age", "3600")

\* res.status(code).json(body) / send(body)
Respond(headers, code, body) == [status |-> code, headers |-> headers, body |-> body]

ErrorBody(msg) == [error |-> msg]

\* an auth gate that lets a request without a bearer header through
HasBearerAlways(authorization) == TRUE

\* authHeader.startsWith('Bearer ')
HasBearer(authorization) == StartsWith(authorization, BearerPrefix)

\* !messages || !Array.isArray(messages) || messages.length === 0
BadMessages(messages) ==
    \/ messages.t = "undefined"
    \/ messages.t = "string"
    \/ messages.t = "array" /\ Len(messages.v) = 0

\* a history built from every turn, the new message included
HistoryWithLast(msgs) ==
    [k \in 1..Len(msgs) |-> [role |-> msgs[k].role, parts |-> <<[text |-> msgs[k].text]>>]]

\* messages.slice(0, -1).map(m => ({ role: m.role, parts: [{ text: m.text }] }))
History(msgs) ==
    [k \in 1..(Len(msgs) - 1) |-> [role |-> msgs[k].role, parts |-> <<[text |-> msgs[k].text]>>]]

\* messages[messages.length - 1].text
LastMsg(msgs) == msgs[Len(msgs)].text

RECURSIVE JoinParts(_)
\* candidate.content.parts.map(p => p.text || '').join('')
JoinParts(parts) ==
    IF Len(parts) = 0 THEN <<>> ELSE parts[1].text \o JoinParts(Tail(parts))

\* \s of the regular expression, and the white space trim() removes
IsSpace(c) == c \in {SP, NL}

\* position of the last lexeme that is not white space (0 when there is none):
\* where a match anchored by \s*$ has to end
LastNonSpace(text) ==
    IF \A k \in 1..Len(text) : IsSpace(text[k]) THEN 0
    ELSE CHOOSE c \in 1..Len(text) :
           ~IsSpace(text[c]) /\ \A k \in (c + 1)..Len(text) : IsSpace(text[k])

\* ```json\n?([\s\S]*?)\n?```\s*$ matches from position p
FenceMatchAt(text, p) ==
    /\ text[p] = FenceOpen
    /\ LastNonSpace(text) > p
    /\ text[LastNonSpace(text)] = Fence

\* group 2 of that match: what lies between the fences, less one leading and one
\* trailing newline
FenceContent(text, p) ==
    LET c == LastNonSpace(text)
        a == IF p + 1 < c /\ text[p + 1] = NL THEN p + 2 ELSE p + 1
        b == IF c - 1 >= a /\ text[c - 1] = NL THEN c - 2 ELSE c - 1
    IN SubSeq(text, a, b)

\* \{"newFacts":\s*\[[\s\S]*?\]\}\s*$ matches from position p
MarkerMatchAt(text, p) ==
    /\ text[p] = MarkerOpen
    /\ \E q \in (p + 1)..Len(text) :
         /\ text[q] = "["
         /\ \A k \in (p + 1)..(q - 1) : IsSpace(text[k])
         /\ LET c == LastNonSpace(text) IN
            c - 1 > q /\ text[c] = "}" /\ text[c - 1] = "]"

NoMatch == [index |-> 0, whole |-> <<>>, content |-> <<>>]

\* replyText.match(/(```json ... ```\s*$|\{"newFacts": ... \]\}\s*$)/): the
\* leftmost position from which one of the alternatives matches; `whole` is
\* factsMatch[0] (and [1]), `content` is factsMatch[2] (empty when undefined)
FactsMatch(text) ==
    LET starts == {p \in 1..Len(text) : FenceMatchAt(text, p) \/ MarkerMatchAt(text, p)} IN
    IF starts = {} THEN NoMatch
    ELSE LET p == CHOOSE x \in starts : \A y \in starts : x <= y IN
         [index |-> p, whole |-> SubSeq(text, p, Len(text)),
          content |-> IF FenceMatchAt(text, p) THEN FenceContent(text, p) ELSE <<>>]

\* a text without its white space lexemes (JSON allows white space between tokens)
RECURSIVE Unspaced(_)
Unspaced(text) ==
    IF Len(text) = 0 THEN <<>>
    ELSE (IF IsSpace(text[1]) THEN <<>> ELSE <<text[1]>>) \o Unspaced(Tail(text))

ParseFailure == [ok |-> FALSE, next |-> 0, value |-> [t |-> "undefined"]]

RECURSIVE ParseValue(_, _)
RECURSIVE ParseElements(_, _, _)
\* JSON value starting at toks[p]: a string, an array, or a {"newFacts": value} object
ParseValue(toks, p) ==
    IF p > Len(toks) THEN ParseFailure
    ELSE IF toks[p] \in StringLiterals
    THEN [ok |-> TRUE, next |-> p + 1, value |-> [t |-> "string", v |-> toks[p]]]
    ELSE IF toks[p] = "["
    THEN IF p + 1 <= Len(toks) /\ toks[p + 1] = "]"
         THEN [ok |-> TRUE, next |-> p + 2, value |-> [t |-> "array", v |-> <<>>]]
         ELSE ParseElements(toks, p + 1, <<>>)
    ELSE IF toks[p] = MarkerOpen
    THEN LET member == ParseValue(toks, p + 1) IN
         IF member.ok /\ member.next <= Len(toks) /\ toks[member.next] = "}"
         THEN [ok |-> TRUE, next |-> member.next + 1,
               value |-> [t |-> "object", newFacts |-> member.value]]
         ELSE ParseFailure
    ELSE ParseFailure

\* the elements of an array from toks[p] on, up to the closing bracket
ParseElements(toks, p, acc) ==
    LET element == ParseValue(toks, p) IN
    IF ~element.ok \/ element.next > Len(toks) THEN ParseFailure
    ELSE IF toks[element.next] = "]"
    THEN [ok |-> TRUE, next |-> element.next + 1,
          value |-> [t |-> "array", v |-> Append(acc, element.value)]]
    ELSE IF toks[element.next] = ","
    THEN ParseElements(toks, element.next + 1, Append(acc, element.value))
    ELSE ParseFailure

\* JSON.parse(jsonContent): throws unless the whole text is one JSON value
JSONParse(text) ==
    LET toks == Unspaced(text)
        parsed == ParseValue(toks, 1)
    IN IF parsed.ok /\ parsed.next = Len(toks) + 1
       THEN [ok |-> TRUE, value |-> parsed.value]
       ELSE [ok |-> FALSE, value |-> [t |-> "undefined"]]

\* the JSON array as the JavaScript array of its elements (strings by their
\* literal, arrays nested)
RECURSIVE ArrayValue(_)
ArrayValue(v) ==
    [k \in 1..Len(v) |-> IF v[k].t = "string" THEN v[k].v
                         ELSE IF v[k].t = "array" THEN ArrayValue(v[k].v)
                         ELSE v[k]]

\* String.prototype.trim
RECURSIVE Trim(_)
Trim(text) ==
    IF Len(text) = 0 THEN text
    ELSE IF IsSpace(text[1]) THEN Trim(Tail(text))
    ELSE IF IsSpace(text[Len(text)]) THEN Trim(SubSeq(text, 1, Len(text) - 1))
    ELSE text

\* replyText.replace(pattern, ''): the first occurrence of the string is removed
ReplaceFirst(text, pattern) ==
    LET at == {k \in 1..(Len(text) - Len(pattern) + 1) :
                 SubSeq(text, k, k + Len(pattern) - 1) = pattern} IN
    IF at = {} \/ Len(pattern) = 0 THEN text
    ELSE LET k == CHOOSE x \in at : \A y \in at : x <= y IN
         SubSeq(text, 1, k - 1) \o SubSeq(text, k + Len(pattern), Len(text))

\* the fact-marker block: match, JSON.parse inside try, newFacts taken when
\* parsed.newFacts is an array, the match removed and the reply trimmed; the empty
\* catch leaves reply and newFacts as they were
ExtractFacts(replyText) ==
    LET factsMatch == FactsMatch(replyText) IN
    IF factsMatch.index = 0 THEN [reply |-> replyText, newFacts |-> <<>>]
    ELSE LET jsonContent == IF Len(factsMatch.content) > 0 THEN factsMatch.content
                            ELSE factsMatch.whole
             parsed == JSONParse(jsonContent)
         IN IF ~parsed.ok THEN [reply |-> replyText, newFacts |-> <<>>]
            ELSE [reply |-> Trim(ReplaceFirst(replyText, factsMatch.whole)),
                  newFacts |-> IF parsed.value.t = "object"
                                    /\ parsed.value.newFacts.t = "array"
                               THEN ArrayValue(parsed.value.newFacts.v)
                               ELSE <<>>]

\* candidate.groundingMetadata?.groundingChunks ?? []
GroundingChunks(candidate) ==
    IF "groundingMetadata" \in DOMAIN candidate
    THEN candidate.groundingMetadata.groundingChunks
    ELSE <<>>

\* c.web?.uri is truthy
HasWebUri(c) == "web" \in DOMAIN c /\ Len(c.web.uri) > 0

\* ({ url: c.web.uri, title: c.web.title || c.web.uri })
SourceOf(c) == [url |-> c.web.uri, title |-> IF Len(c.web.title) > 0 THEN c.web.title ELSE c.web.uri]

\* arr.findIndex(x => x.url === url)
FindIndex(arr, url) ==
    CHOOSE k \in 1..Len(arr) : arr[k].url = url /\ \A j \in 1..(k - 1) : arr[j].url # url

RECURSIVE KeepAll(_, _)
\* a citation list that keeps every entry
KeepAll(arr, k) == IF k > Len(arr) THEN <<>> ELSE <<arr[k]>> \o KeepAll(arr, k + 1)

RECURSIVE KeepFirstOccurrences(_, _)
\* .filter((s, i, arr) => arr.findIndex(x => x.url === s.url) === i), from index k on
KeepFirstOccurrences(arr, k) ==
    IF k > Len(arr) THEN <<>>
    ELSE (IF FindIndex(arr, arr[k].url) = k THEN <<arr[k]>> ELSE <<>>)
            \o KeepFirstOccurrences(arr, k + 1)

\* the cap of .slice(0, 5)
SourceCap == 5

\* the sources of the response: filter, map, de-duplicate, slice(0, 5)
GroundingSources(groundingChunks) ==
    LET withUri == SelectSeq(groundingChunks, HasWebUri)
        mapped == [k \in 1..Len(withUri) |-> SourceOf(withUri[k])]
        unique == KeepFirstOccurrences(mapped, 1)
    IN SubSeq(unique, 1, IF Len(unique) < SourceCap THEN Len(unique) ELSE SourceCap)

\* a request arrives: the handler runs up to its first await (verifyIdToken) or
\* answers at once (preflight, wrong method, no bearer header)
Receive(r) ==
    /\ handler.pc \in {"idle", "responded"}
    /\ served < MaxRequests
    /\ served' = served + 1
    /\ req' = r
    /\ LET headers == CorsHeaders(r.origin) IN
       IF r.method = "OPTIONS"
       THEN /\ res' = Respond(headers, 204, [empty |-> TRUE])
            /\ handler' = [Idle EXCEPT !.pc = "responded"]
       ELSE IF r.method # "POST"
       THEN /\ res' = Respond(headers, 405, ErrorBody("Method not allowed"))
            /\ handler' = [Idle EXCEPT !.pc = "responded"]
       ELSE IF ~HasBearer(r.authorization)
       THEN /\ res' = Respond(headers, 401,
                              ErrorBody("Missing or invalid Authorization header."))
            /\ handler' = [Idle EXCEPT !.pc = "responded"]
       ELSE /\ res' = [NoResponse EXCEPT !.headers = headers]
            /\ handler' = [Idle EXCEPT !.pc = "verifying", !.verifyCalls = 1]
    /\ UNCHANGED <<syncVars, reader, authVars, clientVars>>

\* auth.verifyIdToken(idToken) resolves: the body is validated and, if it holds a
\* non-empty messages array, the chat is started and the last message sent
VerifyResolve ==
    /\ handler.pc = "verifying"
    /\ Slice(req.authorization, 7) \in ValidTokens
    /\ IF BadMessages(req.messages)
       THEN /\ res' = Respond(res.headers, 400, ErrorBody("messages array is required."))
            /\ handler' = [handler EXCEPT !.pc = "responded",
                              !.uid = UidOf(Slice(req.authorization, 7))]
       ELSE /\ handler' = [handler EXCEPT !.pc = "calling",
                              !.uid = UidOf(Slice(req.authorization, 7)),
                              !.modelCalls = @ + 1,
                              !.chat = [history |-> History(req.messages.v),
                                        message |-> LastMsg(req.messages.v)]]
            /\ UNCHANGED res
    /\ UNCHANGED <<syncVars, reader, authVars, clientVars, served, req>>

\* a rejected token reported as a service error
VerifyRejectAsServiceError ==
    /\ handler.pc = "verifying"
    /\ Slice(req.authorization, 7) \notin ValidTokens
    /\ res' = Respond(res.headers, 500, ErrorBody("AI service error. Please try again."))
    /\ handler' = [handler EXCEPT !.pc = "responded"]
    /\ UNCHANGED <<syncVars, reader, authVars, clientVars, served, req>>

\* auth.verifyIdToken(idToken) rejects
VerifyReject ==
    /\ handler.pc = "verifying"
    /\ Slice(req.authorization, 7) \notin ValidTokens
    /\ res' = Respond(res.headers, 401, ErrorBody("Unauthorized - invalid token."))
    /\ handler' = [handler EXCEPT !.pc = "responded"]
    /\ UNCHANGED <<syncVars, reader, authVars, clientVars, served, req>>

Threw == [threw |-> TRUE]

\* a catch block that sends the message once more before giving up
ModelThrowsRetrying ==
    /\ handler.pc = "calling"
    /\ IF handler.modelCalls < 2
       THEN /\ handler' = [handler EXCEPT !.modelCalls = @ + 1]
            /\ UNCHANGED res
       ELSE /\ res' = Respond(res.headers, 500,
                              ErrorBody("AI service error. Please try again."))
            /\ handler' = [handler EXCEPT !.pc = "responded", !.result = Threw]
    /\ UNCHANGED <<syncVars, reader, authVars, clientVars, served, req>>

\* chat.sendMessage(lastMsg) rejects
ModelThrows ==
    /\ handler.pc = "calling"
    /\ res' = Respond(res.headers, 500, ErrorBody("AI service error. Please try again."))
    /\ handler' = [handler EXCEPT !.pc = "responded", !.result = Threw]
    /\ UNCHANGED <<syncVars, reader, authVars, clientVars, served, req>>

\* chat.sendMessage(lastMsg) resolves with `result`: the first candidate's text
\* is joined, the fact marker extracted, the sources collected, and 200 sent
ModelResolveWith(result) ==
    /\ handler.pc = "calling"
    /\ IF Len(result.candidates) = 0
       THEN res' = Respond(res.headers, 500,
                           ErrorBody("No response from AI. Please try again."))
       ELSE LET candidate == result.candidates[1]
                extracted == ExtractFacts(JoinParts(candidate.content.parts))
            IN res' = Respond(res.headers, 200,
                              [reply |-> extracted.reply,
                               sources |-> GroundingSources(GroundingChunks(candidate)),
                               newFacts |-> extracted.newFacts])
    /\ handler' = [handler EXCEPT !.pc = "responded", !.result = result]
    /\ UNCHANGED <<syncVars, reader, authVars, clientVars, served, req>>

ModelResolve == \E result \in ModelResponses : ModelResolveWith(result)

(***************************************************************************)
(* Sign-in and the user profile (client): src/firebase/auth.js and         *)
(* setFavouriteDriver of src/firebase/firestore.js                         *)
(***************************************************************************)
Sessions == {"tabA", "tabB"}

\* both browser sessions sign in with the same Google account
SessionUid == "uid-1"

FavouriteIds == {"max_verstappen", "hamilton"}

NoDoc == [exists |-> FALSE]

\* the document signInWithGoogle writes for a first-time user
NewProfile(now) ==
    [exists |-> TRUE,
     data |-> [f \in {"displayName", "email", "photoURL", "createdAt"} |->
                 IF f = "createdAt" THEN now ELSE f]]

\* setDoc(ref, data, { merge: true }): the given fields are set, the others kept
SetDocMerge(doc, data) ==
    [exists |-> TRUE,
     data |-> [f \in (IF doc.exists THEN DOMAIN doc.data ELSE {}) \cup DOMAIN data |->
                 IF f \in DOMAIN data THEN data[f] ELSE doc.data[f]]]

\* setDoc(ref, data) without options: the document becomes exactly the given data
SetDocOverwrite(doc, data) == data

SignedOut == [pc |-> "signedOut", snapExists |-> FALSE]

\* signInWithPopup resolves: the session has a user, getDoc(userRef) is issued
PopupResolve(c) ==
    /\ session[c].pc = "signedOut"
    /\ session' = [session EXCEPT ![c].pc = "reading"]
    /\ UNCHANGED <<syncVars, reader, proxyVars, users, clientVars>>

\* getDoc(userRef) resolves with the document as it is now; when it exists the
\* function returns the user, otherwise setDoc is issued
GetDocResolve(c) ==
    /\ session[c].pc = "reading"
    /\ session' = [session EXCEPT ![c] =
                     [pc |-> IF users[SessionUid].exists THEN "signedIn" ELSE "creating",
                      snapExists |-> users[SessionUid].exists]]
    /\ UNCHANGED <<syncVars, reader, proxyVars, users, clientVars>>

\* the setDoc of the !snap.exists() branch is applied by Firestore
CreateResolve(c) ==
    /\ session[c].pc = "creating"
    /\ users' = [users EXCEPT ![SessionUid] = SetDocOverwrite(@, NewProfile(clock))]
    /\ clock' = clock + 1
    /\ session' = [session EXCEPT ![c].pc = "signedIn"]
    /\ UNCHANGED <<provider, runs, pc, fetched, batch, err, store, written, seen, timer,
                   reader, proxyVars, clientVars>>

\* signOut(): the session of a signed-in user ends
SignOut(c) ==
    /\ session[c].pc = "signedIn"
    /\ session' = [session EXCEPT ![c] = SignedOut]
    /\ UNCHANGED <<syncVars, reader, proxyVars, users, clientVars>>

\* a session that has a user calls setFavouriteDriver(uid, driverId)
SetFavouriteDriver(c, driverId) ==
    /\ session[c].pc # "signedOut"
    /\ users' = [users EXCEPT ![SessionUid] =
                   SetDocMerge(@, [f \in {"favouriteDriverId"} |-> driverId])]
    /\ UNCHANGED <<syncVars, reader, proxyVars, session, clientVars>>

(***************************************************************************)
(* The app shell: main.jsx mounts AuthProvider around App inside a         *)
(* BrowserRouter.  Firebase Auth reports the session to the listener that  *)
(* AuthProvider's effect registers; the screen is what the committed       *)
(* render of AuthProvider, App and the matched route puts on the page.     *)
(***************************************************************************)
NoUser == "null"

Paths == {"/", "/calendar", "/standings", "/predictions", "/profile"}

ProtectedPaths == {"/predictions", "/profile"}

\* <Routes>: the page element of the route that matches the location
Page(path) ==
    CASE path = "/" -> "Home"
      [] path = "/calendar" -> "Calendar"
      [] path = "/standings" -> "Standings"
      [] path = "/predictions" -> "Predictions"
      [] path = "/profile" -> "Profile"

RouteContent == {"Navbar", "Footer", "Navigate"} \cup {Page(p) : p \in Paths}

\* ProtectedRoute: if (!user) return <Navigate to="/" replace />; return children
ProtectedRoute(user, children) ==
    IF user = NoUser THEN "Navigate" ELSE children

RouteElement(user, path) ==
    IF path \in ProtectedPaths THEN ProtectedRoute(user, Page(path)) ELSE Page(path)

\* App: the login wall if (!user), the navbar, the routes and the footer otherwise
App(user, path) ==
    IF user = NoUser
    THEN {"LoginWall"}
    ELSE {"Navbar", RouteElement(user, path), "Footer"}

AuthProviderUngated(user, loading, path) == App(user, path)

\* AuthProvider: {!loading && children}
AuthProvider(user, loading, path) ==
    IF ~loading THEN App(user, path) ELSE {}

\* the document after createRoot(...).render(...) at location path: useState(null),
\* useState(true), no listener yet, Firebase still reading the persisted session
Loaded(path) ==
    [auth |-> "unresolved", listening |-> FALSE, inbox |-> <<>>,
     user |-> NoUser, loading |-> TRUE, called |-> FALSE, path |-> path,
     screen |-> AuthProvider(NoUser, TRUE, path)]

\* onAuthStateChanged notifies the registered listener of the session u
Notify(g, u) ==
    IF g.listening THEN Append(g.inbox, u) ELSE g.inbox

\* the user opens or reloads the app at a URL
Load(path) ==
    /\ gate' = Loaded(path)
    /\ UNCHANGED <<syncVars, reader, proxyVars, authVars, detail, sectionVars, pageVars, chatVars>>

\* AuthProvider's effect runs: onAuthStateChanged(auth, callback) registers the
\* listener, which is told the current session once that is known
Subscribe ==
    /\ ~gate.listening
    /\ gate' = [gate EXCEPT !.listening = TRUE,
                            !.inbox = IF gate.auth = "unresolved"
                                      THEN gate.inbox
                                      ELSE Append(gate.inbox, gate.auth)]
    /\ UNCHANGED <<syncVars, reader, proxyVars, authVars, detail, sectionVars, pageVars, chatVars>>

\* the effect's cleanup (StrictMode unmounts and remounts every component once):
\* unsubscribe() removes the listener, which is not called again
Unsubscribe ==
    /\ gate.listening
    /\ gate' = [gate EXCEPT !.listening = FALSE, !.inbox = <<>>]
    /\ UNCHANGED <<syncVars, reader, proxyVars, authVars, detail, sectionVars, pageVars, chatVars>>

\* Firebase Auth finishes reading the persisted session: a user, or none
AuthResolve(u) ==
    /\ gate.auth = "unresolved"
    /\ gate' = [gate EXCEPT !.auth = u, !.inbox = Notify(gate, u)]
    /\ UNCHANGED <<syncVars, reader, proxyVars, authVars, detail, sectionVars, pageVars, chatVars>>

\* signInWithGoogle's popup resolves with a user, from the login wall's button or
\* in another tab of the browser (the persisted session is shared by the tabs)
GateSignIn ==
    /\ gate.auth = NoUser
    /\ Len(gate.inbox) < MaxPending
    /\ gate' = [gate EXCEPT !.auth = SessionUid, !.inbox = Notify(gate, SessionUid)]
    /\ UNCHANGED <<syncVars, reader, proxyVars, authVars, detail, sectionVars, pageVars, chatVars>>

\* the navbar's Sign Out button, or the session being revoked or expiring
GateSignOut ==
    /\ gate.auth = SessionUid
    /\ Len(gate.inbox) < MaxPending
    /\ gate' = [gate EXCEPT !.auth = NoUser, !.inbox = Notify(gate, NoUser)]
    /\ UNCHANGED <<syncVars, reader, proxyVars, authVars, detail, sectionVars, pageVars, chatVars>>

\* the listener's callback: setUser(currentUser); setLoading(false), committed
\* as one render (createRoot batches the two updates)
AuthCallback ==
    /\ gate.inbox # <<>>
    /\ LET currentUser == Head(gate.inbox)
       IN  gate' = [gate EXCEPT !.inbox = Tail(gate.inbox),
                                !.user = currentUser,
                                !.loading = FALSE,
                                !.called = TRUE,
                                !.screen = AuthProvider(currentUser, FALSE, gate.path)]
    /\ UNCHANGED <<syncVars, reader, proxyVars, authVars, detail, sectionVars, pageVars, chatVars>>

\* a navbar link is followed: the location changes and the routes render again
FollowLink(path) ==
    /\ "Navbar" \in gate.screen
    /\ path # gate.path
    /\ gate' = [gate EXCEPT !.path = path,
                            !.screen = AuthProvider(gate.user, gate.loading, path)]
    /\ UNCHANGED <<syncVars, reader, proxyVars, authVars, detail, sectionVars, pageVars, chatVars>>

(***************************************************************************)
(* The pages that write to Firestore.  App mounts a page only for a        *)
(* signed-in user, and one browser tab shows one route at a time.  A user  *)
(* is the Firebase User object; addDoc calls stay in flight until          *)
(* Firestore answers them, also after the page that made them is gone.     *)
(***************************************************************************)
Alice == [uid |-> SessionUid, displayName |-> "Alice", photoURL |-> "alice.png"]

Bob == [uid |-> "uid-2", displayName |-> "Bob", photoURL |-> "bob.png"]

Accounts == {Alice, Bob}

\* useAuth().user when it is null
NoAccount == [uid |-> NoUser, displayName |-> "", photoURL |-> ""]

RaceIds == {"australia", "china"}

GrandPrix(raceId) ==
    IF raceId = "australia" THEN "Australian Grand Prix" ELSE "Chinese Grand Prix"

\* what the comment input can hold: nothing, white space, words, padded words
CommentTexts == {<<>>, <<SP>>, Words, <<SP>> \o Words}

NoSub == [id |-> 0, raceId |-> "none", gen |-> 0]

\* the component before it is mounted, and after it is unmounted
SectionGone(gen) ==
    [mounted |-> FALSE, gen |-> gen, user |-> NoAccount, raceId |-> "none",
     text |-> <<>>, posting |-> FALSE, comments |-> <<>>, last |-> NoSub,
     unsubscribe |-> 0]

NoComments == [docs |-> <<>>, pending |-> <<>>, listeners |-> {}, nextId |-> 1]

\* !text.trim()
BlankUntrimmed(text) == text = <<>>

Blank(text) == Trim(text) = <<>>

\* the Post button: disabled={posting || !text.trim()}
PostDisabled(s) == s.posting \/ Blank(s.text)

\* addComment(raceId, userId, displayName, photoURL, text): the document of addDoc
AddComment(raceId, userId, displayName, photoURL, text) ==
    [raceId |-> raceId, userId |-> userId, displayName |-> displayName,
     photoURL |-> photoURL, text |-> text, createdAt |-> ServerTimestamp]

\* subscribeToComments(raceId, setComments): onSnapshot registers a listener
\* whose callback is the setComments of component instance gen
SubscribeToComments(c, raceId, gen) ==
    [c EXCEPT !.listeners = c.listeners \cup
                              {[id |-> c.nextId, raceId |-> raceId, gen |-> gen]},
              !.nextId = c.nextId + 1]

KeepListening(c, id) == c

\* the unsubscribe function onSnapshot returned: its listener is removed
Unsubscribed(c, id) ==
    [c EXCEPT !.listeners = {l \in c.listeners : l.id # id}]

RECURSIVE WhereRaceId(_, _)
\* where('raceId', '==', raceId) over the collection, in createdAt order
WhereRaceId(docs, raceId) ==
    IF docs = <<>> THEN <<>>
    ELSE IF Head(docs).data.raceId = raceId
         THEN <<Head(docs).data>> \o WhereRaceId(Tail(docs), raceId)
         ELSE WhereRaceId(Tail(docs), raceId)

Without(seq, k) == SubSeq(seq, 1, k - 1) \o SubSeq(seq, k + 1, Len(seq))

\* RaceDetail renders <CommentSection raceId={raceId} /> for the signed-in user;
\* the effect subscribes to the race's comments
SectionMount(u, raceId) ==
    /\ ~section.mounted
    /\ ~page.mounted
    /\ section.gen < MaxMounts
    /\ commentDocs.nextId <= MaxSubs
    /\ section' = [SectionGone(section.gen + 1) EXCEPT
                     !.mounted = TRUE, !.user = u, !.raceId = raceId,
                     !.unsubscribe = commentDocs.nextId]
    /\ commentDocs' = SubscribeToComments(commentDocs, raceId, section.gen + 1)
    /\ UNCHANGED <<syncVars, reader, proxyVars, authVars, detail, gate, pageVars, chatVars>>

\* the route's raceId changes: the effect's cleanup runs, then the effect again
SectionRaceChange(raceId) ==
    /\ section.mounted
    /\ raceId # section.raceId
    /\ commentDocs.nextId <= MaxSubs
    /\ section' = [section EXCEPT !.raceId = raceId,
                                  !.unsubscribe = commentDocs.nextId]
    /\ commentDocs' = SubscribeToComments(
                          Unsubscribed(commentDocs, section.unsubscribe), raceId,
                          section.gen)
    /\ UNCHANGED <<syncVars, reader, proxyVars, authVars, detail, gate, pageVars, chatVars>>

\* the page is left, or the user signs out and App shows the login wall: the
\* effect's cleanup runs
SectionUnmount ==
    /\ section.mounted
    /\ section' = SectionGone(section.gen)
    /\ commentDocs' = Unsubscribed(commentDocs, section.unsubscribe)
    /\ UNCHANGED <<syncVars, reader, proxyVars, authVars, detail, gate, pageVars, chatVars>>

\* onSnapshot calls back a registered listener, whose component is still
\* mounted: setComments(comments)
Snapshot(l) ==
    /\ l \in commentDocs.listeners
    /\ section.mounted /\ section.gen = l.gen
    /\ section' = [section EXCEPT
                     !.comments = WhereRaceId(commentDocs.docs, l.raceId),
                     !.last = l]
    /\ UNCHANGED <<syncVars, reader, proxyVars, authVars, detail, gate, commentDocs, pageVars, chatVars>>

\* onChange of the input: setText(e.target.value)
TypeComment(text) ==
    /\ section.mounted
    /\ text # section.text
    /\ section' = [section EXCEPT !.text = text]
    /\ UNCHANGED <<syncVars, reader, proxyVars, authVars, detail, gate, commentDocs, pageVars, chatVars>>

\* the form is submitted (the Post button is enabled): handleSubmit up to its await
SubmitComment ==
    /\ section.mounted
    /\ section.user # NoAccount
    /\ ~PostDisabled(section)
    /\ Len(commentDocs.docs) + Len(commentDocs.pending) < MaxWrites
    /\ IF Blank(section.text) \/ section.user = NoAccount
       THEN UNCHANGED sectionVars
       ELSE /\ section' = [section EXCEPT !.posting = TRUE]
            /\ commentDocs' = [commentDocs EXCEPT !.pending = Append(@,
                   [data |-> AddComment(section.raceId, section.user.uid,
                                        section.user.displayName,
                                        section.user.photoURL, Trim(section.text)),
                    user |-> section.user, typed |-> section.text,
                    gen |-> section.gen])]
    /\ UNCHANGED <<syncVars, reader, proxyVars, authVars, detail, gate, pageVars, chatVars>>

\* addDoc resolves: the document exists; handleSubmit continues with setText('')
\* and setPosting(false) if its component is still there
CommentResolve(k) ==
    /\ k \in DOMAIN commentDocs.pending
    /\ LET call == commentDocs.pending[k]
       IN  /\ commentDocs' = [commentDocs EXCEPT
                                !.pending = Without(@, k),
                                !.docs = Append(@, [data |-> call.data,
                                                    user |-> call.user,
                                                    typed |-> call.typed])]
           /\ section' = IF section.mounted /\ section.gen = call.gen
                         THEN [section EXCEPT !.text = <<>>, !.posting = FALSE]
                         ELSE section
    /\ UNCHANGED <<syncVars, reader, proxyVars, authVars, detail, gate, pageVars, chatVars>>

\* addDoc rejects (offline, or refused by the rules): finally setPosting(false)
CommentReject(k) ==
    /\ k \in DOMAIN commentDocs.pending
    /\ LET call == commentDocs.pending[k]
       IN  /\ commentDocs' = [commentDocs EXCEPT !.pending = Without(@, k)]
           /\ section' = IF section.mounted /\ section.gen = call.gen
                         THEN [section EXCEPT !.posting = FALSE]
                         ELSE section
    /\ UNCHANGED <<syncVars, reader, proxyVars, authVars, detail, gate, pageVars, chatVars>>

(***************************************************************************)
(* The Predictions page                                                    *)
(***************************************************************************)
DriverNames == {"Max Verstappen", "Lewis Hamilton"}

\* the page before it is mounted, and after it is unmounted
PageGone(gen) ==
    [mounted |-> FALSE, gen |-> gen, user |-> NoAccount,
     predictions |-> [r \in RaceIds |-> ""], saving |-> "null",
     selections |-> [r \in RaceIds |-> ""]]

NoPredictions == [docs |-> <<>>, pending |-> <<>>]

\* addPrediction(userId, displayName, raceId, raceName, predictedWinner)
AddPrediction(userId, displayName, raceId, raceName, predictedWinner) ==
    [userId |-> userId, displayName |-> displayName, raceId |-> raceId,
     raceName |-> raceName, predictedWinner |-> predictedWinner,
     createdAt |-> ServerTimestamp]

\* the Lock In button of a race: disabled={!selections[race.id] || saving === race.id}
LockInDisabled(p, raceId) == p.selections[raceId] = "" \/ p.saving = raceId

\* the route /predictions renders the page for the signed-in user, who has no
\* pick for the upcoming races yet
PageMount(u) ==
    /\ ~page.mounted
    /\ ~section.mounted
    /\ page.gen < MaxMounts
    /\ page' = [PageGone(page.gen + 1) EXCEPT !.mounted = TRUE, !.user = u]
    /\ UNCHANGED <<syncVars, reader, proxyVars, authVars, detail, gate, sectionVars,
                   predictionDocs, chatVars>>

PageUnmount ==
    /\ page.mounted
    /\ page' = PageGone(page.gen)
    /\ UNCHANGED <<syncVars, reader, proxyVars, authVars, detail, gate, sectionVars,
                   predictionDocs, chatVars>>

\* onChange of a race's select, shown while the race has no pick
Select(raceId, name) ==
    /\ page.mounted
    /\ page.predictions[raceId] = ""
    /\ name # page.selections[raceId]
    /\ page' = [page EXCEPT !.selections[raceId] = name]
    /\ UNCHANGED <<syncVars, reader, proxyVars, authVars, detail, gate, sectionVars,
                   predictionDocs, chatVars>>

\* a race's Lock In button is clicked (it is shown and enabled): handleSubmit up
\* to its await
SubmitPrediction(raceId) ==
    /\ page.mounted
    /\ page.predictions[raceId] = ""
    /\ ~LockInDisabled(page, raceId)
    /\ Len(predictionDocs.docs) + Len(predictionDocs.pending) < MaxWrites
    /\ LET winner == page.selections[raceId]
       IN  IF winner = ""
           THEN UNCHANGED pageVars
           ELSE /\ page' = [page EXCEPT !.saving = raceId]
                /\ predictionDocs' = [predictionDocs EXCEPT !.pending = Append(@,
                       [data |-> AddPrediction(page.user.uid, page.user.displayName,
                                               raceId, GrandPrix(raceId), winner),
                        user |-> page.user, gen |-> page.gen])]
    /\ UNCHANGED <<syncVars, reader, proxyVars, authVars, detail, gate, sectionVars, chatVars>>

\* addDoc resolves: the record exists; handleSubmit continues with setPredictions,
\* setSelections and setSaving(null) if its page is still there
PredictionResolve(k) ==
    /\ k \in DOMAIN predictionDocs.pending
    /\ LET call == predictionDocs.pending[k]
       IN  /\ predictionDocs' = [predictionDocs EXCEPT
                                   !.pending = Without(@, k),
                                   !.docs = Append(@, [data |-> call.data,
                                                       user |-> call.user,
                                                       gen |-> call.gen])]
           /\ page' = IF page.mounted /\ page.gen = call.gen
                      THEN [page EXCEPT
                              !.predictions[call.data.raceId] = call.data.predictedWinner,
                              !.selections[call.data.raceId] = "",
                              !.saving = "null"]
                      ELSE page
    /\ UNCHANGED <<syncVars, reader, proxyVars, authVars, detail, gate, sectionVars, chatVars>>

\* addDoc rejects: finally setSaving(null)
PredictionReject(k) ==
    /\ k \in DOMAIN predictionDocs.pending
    /\ LET call == predictionDocs.pending[k]
       IN  /\ predictionDocs' = [predictionDocs EXCEPT !.pending = Without(@, k)]
           /\ page' = IF page.mounted /\ page.gen = call.gen
                      THEN [page EXCEPT !.saving = "null"]
                      ELSE page
    /\ UNCHANGED <<syncVars, reader, proxyVars, authVars, detail, gate, sectionVars, chatVars>>

(***************************************************************************)
(* The RaceDetail page: its effect loads the race, then the race's result  *)
(***************************************************************************)
\* the rounds of the seeded races a visitor opens: one digit, and two digits
DetailRounds == {1, 2, MaxRound}

ResultIdUnpadded(season, round) ==
    StringOf(season) \o <<"_">> \o StringOf(round)

\* getRaceResult: `${season}_${String(round).padStart(2, '0')}`
ResultId(season, round) ==
    StringOf(season) \o <<"_">> \o PadStart(StringOf(round), 2, "0")

\* getRaceResult(season, round): snap.exists() ? { id, ...data } : null
getRaceResult(st, season, round) ==
    LET id == ResultId(season, round) IN
    IF ResultsPath(id) \in DOMAIN st
    THEN [exists |-> TRUE, id |-> id, data |-> st[ResultsPath(id)]]
    ELSE Null

DetailClosed == [pc |-> "closed", round |-> 0, result |-> Null]

\* the page is opened for a race; getRace resolves with the race document, whose
\* round is a number, and getRaceResult(2026, raceData.round) is issued
DetailOpen(round) ==
    /\ detail.pc = "closed"
    /\ detail' = [pc |-> "reading", round |-> round, result |-> Null]
    /\ UNCHANGED <<syncVars, reader, proxyVars, authVars, gate, sectionVars, pageVars, chatVars>>

\* getDoc resolves against the store as it is now: setResult(res)
DetailResolve ==
    /\ detail.pc = "reading"
    /\ detail' = [detail EXCEPT !.pc = "shown",
                                !.result = getRaceResult(store, SEASON, detail.round)]
    /\ UNCHANGED <<syncVars, reader, proxyVars, authVars, gate, sectionVars, pageVars, chatVars>>

\* the visitor leaves the page
DetailClose ==
    /\ detail.pc = "shown"
    /\ detail' = DetailClosed
    /\ UNCHANGED <<syncVars, reader, proxyVars, authVars, gate, sectionVars, pageVars, chatVars>>

(***************************************************************************)
(* The ChatBot component and the user's chat memory.  getChatMemory and    *)
(* saveChatMemory are not part of the sources at hand: following the       *)
(* specification, the memory is two fields of the user's profile, the      *)
(* long-term facts and the recent transcript, which a save replaces and a  *)
(* load returns.  Writes of one client reach the store in the order they   *)
(* were issued.                                                            *)
(***************************************************************************)
\* finalMessages.slice(-20)
RecentWindow == 20

Greeting == Turn("model", Words)

Question == <<"q">>

Answer == <<"a">>

\* what the textarea can hold: nothing, white space, a question
ChatInputs == {<<>>, <<SP>>, Question}

FactMax == <<"M", "a", "x">>

FactMaxLower == <<"m", "a", "x">>

FactFerrari == <<"F">>

\* the newFacts of a reply of the proxy
ReplyFacts == {<<>>, <<FactMax>>, <<FactMaxLower, FactFerrari>>}

\* String.prototype.toLowerCase
ToLowerCase(s) ==
    [k \in 1..Len(s) |-> CASE s[k] = "M" -> "m" [] s[k] = "F" -> "f" [] OTHER -> s[k]]

\* merged.findIndex(x => x.toLowerCase() === f.toLowerCase())
FindIndexIgnoringCase(merged, f) ==
    CHOOSE i \in 1..Len(merged) :
        /\ ToLowerCase(merged[i]) = ToLowerCase(f)
        /\ \A j \in 1..(i - 1) : ToLowerCase(merged[j]) # ToLowerCase(f)

RECURSIVE FilterFirst(_, _)
\* merged.filter((f, i) => merged.findIndex(...) === i), for the entries from i on
FilterFirst(merged, i) ==
    IF i > Len(merged) THEN <<>>
    ELSE IF FindIndexIgnoringCase(merged, merged[i]) = i
         THEN <<merged[i]>> \o FilterFirst(merged, i + 1)
         ELSE FilterFirst(merged, i + 1)

\* sendMessage: updatedFacts
UpdatedFacts(facts, newFacts) ==
    IF Len(newFacts) > 0 THEN FilterFirst(facts \o newFacts, 1) ELSE facts

WholeArray(s, n) == s

\* array.slice(-n)
SliceLast(s, n) == IF Len(s) <= n THEN s ELSE SubSeq(s, Len(s) - n + 1, Len(s))

SendAll(msgs) == msgs

\* nextMessages.filter((m, idx) => !(idx === 0 && m.role === 'model'))
WithoutGreeting(msgs) ==
    IF Len(msgs) > 0 /\ msgs[1].role = "model" THEN Tail(msgs) ELSE msgs

NoCall == [stage |-> "none", pre |-> <<>>, next |-> <<>>, sent |-> <<>>,
           facts |-> <<>>, newFacts |-> <<>>]

\* the component after the page loaded: panel closed, nothing loaded
ChatClosed ==
    [isOpen |-> FALSE, input |-> <<>>, loading |-> FALSE, messages |-> <<>>,
     facts |-> <<>>, memoryLoaded |-> FALSE, loads |-> <<>>, call |-> NoCall,
     outcome |-> "none"]

\* the memory of a user who has not chatted yet
NoMemory == [facts |-> <<>>, recentMessages |-> <<>>, queue |-> <<>>]

\* getChatMemory(uid): the stored facts and recent transcript
GetChatMemory(m) == [facts |-> m.facts, recentMessages |-> m.recentMessages]

\* saveChatMemory(uid, facts, recentMessages): both fields are replaced
SaveChatMemory(m, facts, recentMessages) ==
    [m EXCEPT !.facts = facts, !.recentMessages = recentMessages]

\* memory.recentMessages.map(m => ({ role, text, sources: [] })), or the greeting
Restored(recentMessages) ==
    IF Len(recentMessages) > 0 THEN recentMessages ELSE <<Greeting>>

KeepNext(c) == c.next

\* the catch block of sendMessage: setMessages(messages)
RestoredOnError(c) == c.pre

\* the floating button on the closed panel: setIsOpen(o => !o); when the memory
\* is not loaded yet, the effect starts loadMemory
OpenChat ==
    /\ ~chat.isOpen
    /\ ~chat.memoryLoaded => Len(chat.loads) < MaxLoads
    /\ chat' = [chat EXCEPT
                  !.isOpen = TRUE,
                  !.loads = IF ~chat.memoryLoaded
                            THEN Append(chat.loads, [stage |-> "memory",
                                                     memory |-> GetChatMemory(NoMemory)])
                            ELSE chat.loads]
    /\ UNCHANGED <<syncVars, reader, proxyVars, authVars, gate, sectionVars, pageVars,
                   detail, memory>>

\* the floating button on the open panel, or the panel's close button: the
\* panel is hidden, the component and what it started stay
CloseChat ==
    /\ chat.isOpen
    /\ chat' = [chat EXCEPT !.isOpen = FALSE]
    /\ UNCHANGED <<syncVars, reader, proxyVars, authVars, gate, sectionVars, pageVars,
                   detail, memory>>

\* getChatMemory resolves with the memory as stored now; getUserProfile is issued
LoadRead(k) ==
    /\ k \in DOMAIN chat.loads
    /\ chat.loads[k].stage = "memory"
    /\ chat' = [chat EXCEPT !.loads[k] = [stage |-> "profile",
                                          memory |-> GetChatMemory(memory)]]
    /\ UNCHANGED <<syncVars, reader, proxyVars, authVars, gate, sectionVars, pageVars,
                   detail, memory>>

\* getUserProfile resolves: setUserContext, setMessages, setMemoryLoaded(true)
LoadDone(k) ==
    /\ k \in DOMAIN chat.loads
    /\ chat.loads[k].stage = "profile"
    /\ chat' = [chat EXCEPT
                  !.loads = Without(chat.loads, k),
                  !.facts = chat.loads[k].memory.facts,
                  !.messages = Restored(chat.loads[k].memory.recentMessages),
                  !.memoryLoaded = TRUE]
    /\ UNCHANGED <<syncVars, reader, proxyVars, authVars, gate, sectionVars, pageVars,
                   detail, memory>>

\* getChatMemory or getUserProfile rejects: the catch block shows the greeting,
\* finally setMemoryLoaded(true)
LoadFail(k) ==
    /\ k \in DOMAIN chat.loads
    /\ chat' = [chat EXCEPT
                  !.loads = Without(chat.loads, k),
                  !.messages = <<Greeting>>,
                  !.memoryLoaded = TRUE]
    /\ UNCHANGED <<syncVars, reader, proxyVars, authVars, gate, sectionVars, pageVars,
                   detail, memory>>

\* onChange of the textarea, which is disabled={loading || !memoryLoaded}
TypeInput(text) ==
    /\ chat.isOpen /\ ~chat.loading /\ chat.memoryLoaded
    /\ text # chat.input
    /\ chat' = [chat EXCEPT !.input = text]
    /\ UNCHANGED <<syncVars, reader, proxyVars, authVars, gate, sectionVars, pageVars,
                   detail, memory>>

\* Enter in the textarea or the send button: sendMessage up to its first await
SendMessage ==
    /\ chat.isOpen /\ ~chat.loading /\ chat.memoryLoaded
    /\ Len(chat.messages) < MaxTurns
    /\ LET text == Trim(chat.input)
           nextMessages == Append(chat.messages, Turn("user", text))
       IN  IF text = <<>> \/ chat.loading
           THEN UNCHANGED chat
           ELSE chat' = [chat EXCEPT
                           !.messages = nextMessages,
                           !.input = <<>>,
                           !.loading = TRUE,
                           !.outcome = "none",
                           !.call = [stage |-> "calling", pre |-> chat.messages,
                                     next |-> nextMessages,
                                     sent |-> WithoutGreeting(nextMessages),
                                     facts |-> chat.facts, newFacts |-> <<>>]]
    /\ UNCHANGED <<syncVars, reader, proxyVars, authVars, gate, sectionVars, pageVars,
                   detail, memory>>

\* askF1ExpertFn resolves with a reply: the reply is shown, the facts are merged
\* and saveChatMemory is called with the facts and the last 20 messages
CallResolve(newFacts) ==
    /\ chat.call.stage = "calling"
    /\ LET finalMessages == Append(chat.call.next, Turn("model", Answer))
           updatedFacts == UpdatedFacts(chat.call.facts, newFacts)
       IN  /\ chat' = [chat EXCEPT
                         !.messages = finalMessages,
                         !.facts = IF Len(newFacts) > 0 THEN updatedFacts ELSE chat.facts,
                         !.call.stage = "saving",
                         !.call.newFacts = newFacts]
           /\ memory' = [memory EXCEPT !.queue = Append(@,
                            [by |-> "send", facts |-> updatedFacts,
                             recentMessages |-> SliceLast(finalMessages, RecentWindow)])]
    /\ UNCHANGED <<syncVars, reader, proxyVars, authVars, gate, sectionVars, pageVars,
                   detail>>

\* askF1ExpertFn rejects: the catch block restores the transcript, finally
\* setLoading(false)
CallReject ==
    /\ chat.call.stage = "calling"
    /\ chat' = [chat EXCEPT !.messages = RestoredOnError(chat.call),
                            !.loading = FALSE,
                            !.outcome = "failed",
                            !.call = NoCall]
    /\ UNCHANGED <<syncVars, reader, proxyVars, authVars, gate, sectionVars, pageVars,
                   detail, memory>>

\* the clear button, which is disabled={loading}: the greeting is shown and
\* saveChatMemory(uid, userContext.facts, []) is called
ClearChat ==
    /\ chat.isOpen /\ ~chat.loading
    /\ Len(memory.queue) < MaxQueue
    /\ chat' = [chat EXCEPT !.messages = <<Greeting>>, !.input = <<>>,
                            !.loading = FALSE]
    /\ memory' = [memory EXCEPT !.queue = Append(@,
                     [by |-> "clear", facts |-> chat.facts, recentMessages |-> <<>>])]
    /\ UNCHANGED <<syncVars, reader, proxyVars, authVars, gate, sectionVars, pageVars,
                   detail>>

\* the oldest saveChatMemory call resolves: the memory is stored; a sendMessage
\* waiting for it ends with setLoading(false)
SaveResolve ==
    /\ memory.queue # <<>>
    /\ LET w == Head(memory.queue)
       IN  /\ memory' = [SaveChatMemory(memory, w.facts, w.recentMessages)
                           EXCEPT !.queue = Tail(memory.queue)]
           /\ chat' = IF w.by = "send"
                      THEN [chat EXCEPT !.loading = FALSE, !.outcome = "saved",
                                        !.call.stage = "none"]
                      ELSE chat
    /\ UNCHANGED <<syncVars, reader, proxyVars, authVars, gate, sectionVars, pageVars,
                   detail>>

\* the oldest saveChatMemory call rejects: nothing is stored; a sendMessage
\* waiting for it restores the transcript and ends with setLoading(false)
SaveReject ==
    /\ memory.queue # <<>>
    /\ LET w == Head(memory.queue)
       IN  /\ memory' = [memory EXCEPT !.queue = Tail(memory.queue)]
           /\ chat' = IF w.by = "send"
                      THEN [chat EXCEPT !.messages = RestoredOnError(chat.call),
                                        !.loading = FALSE,
                                        !.outcome = "failed",
                                        !.call = NoCall]
                      ELSE chat
    /\ UNCHANGED <<syncVars, reader, proxyVars, authVars, gate, sectionVars, pageVars,
                   detail>>

\* the user reloads the page while the chat is idle: the component starts anew,
\* the memory stays
ReloadChat ==
    /\ ~chat.loading /\ chat.loads = <<>> /\ memory.queue = <<>>
    /\ chat.memoryLoaded
    /\ chat' = ChatClosed
    /\ UNCHANGED <<syncVars, reader, proxyVars, authVars, gate, sectionVars, pageVars,
                   detail, memory>>

(***************************************************************************)
(* Specifications                                                          *)
(***************************************************************************)
EmptyStore == [q \in {} |-> {}]

ProxyIdle ==
    /\ served = 0
    /\ req = NoRequest
    /\ handler = Idle
    /\ res = NoResponse

\* no invocation of the handlers `invs` has started
NotInvoked(invs) ==
    /\ pc = [i \in invs |-> "idle"]
    /\ fetched = [i \in invs |-> [s \in Sources |-> Pending]]
    /\ batch = [i \in invs |-> <<>>]
    /\ err = [i \in invs |-> "none"]
    /\ timer = [i \in invs |-> [s \in Sources |-> "none"]]

\* the deployment before anything ran: empty store, no request, no page open
Deployed ==
    /\ ProxyIdle
    /\ runs = 0
    /\ store = EmptyStore
    /\ clock = 1
    /\ written = <<>>
    /\ seen = <<>>
    /\ reader = Unmounted
    /\ users = [u \in {SessionUid} |-> NoDoc]
    /\ session = [c \in Sessions |-> SignedOut]
    /\ gate = Loaded("/")
    /\ section = SectionGone(0)
    /\ commentDocs = NoComments
    /\ page = PageGone(0)
    /\ predictionDocs = NoPredictions
    /\ detail = DetailClosed
    /\ chat = ChatClosed
    /\ memory = NoMemory

Init ==
    /\ provider \in [round : ProviderRounds, rows : RowLists]
    /\ NotInvoked(Invocations)
    /\ Deployed

SyncNext ==
    \/ \E i \in Invocations : Invoke(i)
    \/ \E i \in Invocations, s \in Sources : FetchFulfil(i, s)
    \/ \E i \in Invocations, s \in Sources : FetchReject(i, s)
    \/ \E i \in Invocations : CommitAccept(i)
    \/ \E i \in Invocations : CommitReject(i)
    \/ ProviderAdvance

\* the sync job and its provider
Next == SyncNext

Spec == Init /\ [][Next]_vars

\* the sync job running while a client has the Standings page open
StandingsNext ==
    \/ SyncNext
    \/ Mount
    \/ \E type \in StandingsTypes : ReadResolve(type)

SpecStandings == Init /\ [][StandingsNext]_vars

\* setTimeout fires after 10 s unless the fetch settled first, so a pending fetch
\* is rejected at the latest by its abort; Firestore answers every commit
SyncFairness ==
    /\ \A i \in Invocations, s \in Sources : WF_vars(FetchReject(i, s))
    /\ \A i \in Invocations : WF_vars(CommitAccept(i) \/ CommitReject(i))

\* the invocations of the sync job, against provider data that stays as it is
\* (the provider publishes only between runs, where no fetch is pending)
InvocationNext ==
    \/ \E i \in Invocations : Invoke(i)
    \/ \E i \in Invocations, s \in Sources : FetchFulfil(i, s)
    \/ \E i \in Invocations, s \in Sources : FetchReject(i, s)
    \/ \E i \in Invocations : CommitAccept(i)
    \/ \E i \in Invocations : CommitReject(i)

\* the sync job under the scheduling the event loop guarantees
SpecSyncFair == Init /\ [][InvocationNext]_vars /\ SyncFairness

\* two browser sessions of one user signing in and choosing a favourite driver
AuthInit == Init /\ provider = [round |-> 1, rows |-> <<"VER">>]

AuthNext ==
    \/ \E c \in Sessions : PopupResolve(c)
    \/ \E c \in Sessions : GetDocResolve(c)
    \/ \E c \in Sessions : CreateResolve(c)
    \/ \E c \in Sessions, d \in FavouriteIds : SetFavouriteDriver(c, d)
    \/ \E c \in Sessions : SignOut(c)

SpecAuth == AuthInit /\ [][AuthNext]_vars

\* the chat proxy serving requests; the sync job is not running
ProxyInit == Init /\ provider = [round |-> 1, rows |-> <<"VER">>]

ProxyNext ==
    \/ \E r \in Requests : Receive(r)
    \/ VerifyResolve
    \/ VerifyReject
    \/ ModelThrows
    \/ ModelResolve

SpecProxy == ProxyInit /\ [][ProxyNext]_vars

\* the chat proxy answering the app's authenticated requests with replies that
\* carry fact markers and grounding chunks
ChatNext ==
    \/ \E r \in ChatRequests : Receive(r)
    \/ VerifyResolve
    \/ ModelThrows
    \/ \E result \in ChatResponses : ModelResolveWith(result)

SpecChat == ProxyInit /\ [][ChatNext]_vars

\* the app shell in one browser tab: page loads, the auth listener, sign-in and
\* sign-out, navigation
GateNext ==
    \/ \E path \in Paths : Load(path)
    \/ Subscribe
    \/ Unsubscribe
    \/ \E u \in {NoUser, SessionUid} : AuthResolve(u)
    \/ GateSignIn
    \/ GateSignOut
    \/ AuthCallback
    \/ \E path \in Paths : FollowLink(path)

SpecGate == ProxyInit /\ [][GateNext]_vars

\* a scheduled run and a manual re-run of the sync job whose fetches and commits
\* interleave, while the provider moves on to a later round
OverlapInit ==
    /\ provider = [round |-> 1, rows |-> <<"VER">>]
    /\ NotInvoked(Overlapping)
    /\ Deployed

OverlapNext ==
    \/ \E i \in Overlapping : Invoke(i)
    \/ \E i \in Overlapping, s \in Sources : FetchFulfil(i, s)
    \/ \E i \in Overlapping, s \in Sources : FetchReject(i, s)
    \/ \E i \in Overlapping : CommitAccept(i)
    \/ \E i \in Overlapping : CommitReject(i)
    \/ ProviderPublish

SpecOverlap == OverlapInit /\ [][OverlapNext]_vars

\* the sync job's invocations while a visitor opens race pages
DetailNext ==
    \/ InvocationNext
    \/ \E round \in DetailRounds : DetailOpen(round)
    \/ DetailResolve
    \/ DetailClose

SpecRaceDetail == Init /\ [][DetailNext]_vars

\* the chat panel of a signed-in user
SessionNext ==
    \/ OpenChat
    \/ \E k \in 1..MaxLoads : LoadRead(k)
    \/ \E k \in 1..MaxLoads : LoadDone(k)
    \/ \E k \in 1..MaxLoads : LoadFail(k)
    \/ \E text \in ChatInputs : TypeInput(text)
    \/ SendMessage
    \/ \E newFacts \in ReplyFacts : CallResolve(newFacts)
    \/ CallReject
    \/ ClearChat
    \/ SaveResolve
    \/ SaveReject
    \/ ReloadChat

\* the panel is opened, closed and opened again at will
ChatBotNext ==
    \/ SessionNext
    \/ CloseChat

SpecChatBot == ProxyInit /\ [][ChatBotNext]_vars

\* after each page load the panel is opened once: any sequence of sendMessage
\* and clearChat operations, their calls and saves succeeding or failing
SpecChatSession == ProxyInit /\ [][SessionNext]_vars

\* the comment section of a race page
SectionNext ==
    \/ \E u \in Accounts, raceId \in RaceIds : SectionMount(u, raceId)
    \/ \E raceId \in RaceIds : SectionRaceChange(raceId)
    \/ SectionUnmount
    \/ \E l \in commentDocs.listeners : Snapshot(l)
    \/ \E text \in CommentTexts : TypeComment(text)
    \/ SubmitComment
    \/ \E k \in 1..MaxWrites : CommentResolve(k)
    \/ \E k \in 1..MaxWrites : CommentReject(k)

\* the Predictions page
PageNext ==
    \/ \E u \in Accounts : PageMount(u)
    \/ PageUnmount
    \/ \E raceId \in RaceIds, name \in DriverNames \cup {""} : Select(raceId, name)
    \/ \E raceId \in RaceIds : SubmitPrediction(raceId)
    \/ \E k \in 1..MaxWrites : PredictionResolve(k)
    \/ \E k \in 1..MaxWrites : PredictionReject(k)

SpecComments == ProxyInit /\ [][SectionNext]_vars

SpecPredictions == ProxyInit /\ [][PageNext]_vars

\* one browser tab in which users post comments on a race and lock in picks
SubmitNext ==
    \/ \E u \in Accounts : SectionMount(u, "australia")
    \/ SectionUnmount
    \/ \E text \in CommentTexts : TypeComment(text)
    \/ SubmitComment
    \/ \E k \in 1..MaxWrites : CommentResolve(k)
    \/ \E u \in Accounts : PageMount(u)
    \/ PageUnmount
    \/ \E name \in {"Max Verstappen", ""} : Select("china", name)
    \/ SubmitPrediction("china")
    \/ \E k \in 1..MaxWrites : PredictionResolve(k)

SpecSubmit == ProxyInit /\ [][SubmitNext]_vars

(***************************************************************************)
(* Properties of the sync job                                              *)
(***************************************************************************)
Settled(i) == \A s \in Sources : fetched[i][s] # Pending

SomeRejected(i) == \E s \in Sources : fetched[i][s] = Rejected

SomeFulfilled(i) == \E s \in Sources : fetched[i][s].status = "fulfilled"

\* the list the handler can extract from the settled fetch of source s
Extracted(i, s) ==
    IF fetched[i][s].status # "fulfilled" THEN <<>>
    ELSE IF s = "results" THEN Races(fetched[i][s].value)
    ELSE StandingsLists(fetched[i][s].value)

\* invocation i's commit is being answered in this step
CommitAnswered(i) == pc[i] = "committing" /\ pc'[i] # "committing"

ResultsDocsUntouched ==
    /\ {q \in DOMAIN store' : q.coll = "results"} = {q \in DOMAIN store : q.coll = "results"}
    /\ \A q \in DOMAIN store : q.coll = "results" => store'[q] = store[q]

\* the documents the provider's data should yield, written out independently of
\* the handler's transformation
ExpectedKey(r) ==
    <<"2", "0", "2", "6", "_">> \o (IF r < 10 THEN <<"0", Digit(r)>> ELSE StringOf(r))

ExpectedResultRows(rows) ==
    [k \in 1..Len(rows) |->
        [position |-> k, driverCode |-> rows[k],
         constructor |-> ConstructorOf(rows[k]), points |-> PointsFor(k)]]

ExpectedDriverEntries(rows) ==
    [k \in 1..Len(rows) |->
        [position |-> k, driverCode |-> rows[k],
         constructor |-> ConstructorOf(rows[k]), points |-> PointsFor(k)]]

ExpectedConstructorEntries(rows) ==
    [k \in 1..Len(rows) |->
        [position |-> k, name |-> ConstructorOf(rows[k]), points |-> PointsFor(k)]]

ExpectedStandingsDoc(type, p, now) ==
    [season |-> 2026, round |-> p.round,
     standings |-> IF type = "drivers" THEN ExpectedDriverEntries(p.rows)
                   ELSE ExpectedConstructorEntries(p.rows),
     updatedAt |-> now]

\* C1: an invocation in which at least one but not all of the three fetches
\* failed (timeout or non-2xx) does not fail.
C1_PartialOutageDoesNotFail ==
    \A i \in Invocations :
        Settled(i) /\ SomeRejected(i) /\ SomeFulfilled(i) => pc[i] # "failed"

\* C2: the commit is all-or-nothing. A rejected commit changes no document and the
\* invocation is reported failed; an accepted commit sets every staged document
\* (with the commit time as updatedAt) in that one step and changes nothing else;
\* the store changes in no other step.
C2_CommitIsAllOrNothing ==
    [][ /\ \A i \in Invocations : CommitAnswered(i) =>
              \/ /\ pc'[i] = "failed"
                 /\ err'[i] = "commit"
                 /\ store' = store
              \/ /\ pc'[i] = "done"
                 /\ DOMAIN store' = DOMAIN store \cup BatchPaths(batch[i])
                 /\ \A k \in 1..Len(batch[i]) :
                      store'[batch[i][k].path] =
                          [batch[i][k].data EXCEPT !.updatedAt = clock]
                 /\ \A q \in DOMAIN store \ BatchPaths(batch[i]) : store'[q] = store[q]
        /\ (store' # store => \E i \in Invocations : CommitAnswered(i))
      ]_vars

\* C2 witness: a commit with at least two staged documents was rejected after an
\* earlier run had committed, and the store still holds only the earlier commit.
C2_Witness ==
    \E i \in Invocations :
        /\ pc[i] = "failed" /\ err[i] = "commit"
        /\ Len(batch[i]) >= 2
        /\ Len(written) = 1 /\ \A q \in DOMAIN store : store[q].updatedAt = 1

\* C3: when no race list and no standings list can be extracted from any of the
\* three responses (each unreachable or malformed), the invocation is not
\* reported as successful.
C3_AllUnusableIsFailure ==
    \A i \in Invocations :
        (\A s \in Sources : fetched[i][s] \in {Rejected, Fulfilled(MalformedBody)})
            => pc[i] # "done"

\* the standings documents the handler stages for the lists it fetched are in the
\* store after this step, stamped with this commit's time
StandingsCommitted(i) ==
    \A type \in StandingsTypes :
        Len(Extracted(i, type)) > 0 =>
            /\ StandingsPath(type) \in DOMAIN store'
            /\ store'[StandingsPath(type)] = ExpectedStandingsDoc(type, provider, clock)

EmptyRaces(i) == AllFulfilled(fetched[i]) /\ Len(Extracted(i, "results")) = 0

C9_OneRaceOneResultsDoc ==
    [][\A i \in Invocations :
         (CommitAnswered(i) /\ pc'[i] = "done" /\ Len(Extracted(i, "results")) = 1) =>
            LET key == ResultsPath(ExpectedKey(provider.round)) IN
            /\ key \in DOMAIN store'
            /\ store'[key].round = provider.round
            /\ store'[key].results = ExpectedResultRows(provider.rows)
            /\ store'[key].updatedAt = clock
            /\ {q \in DOMAIN store' : q.coll = "results"}
                  = {q \in DOMAIN store : q.coll = "results"} \cup {key}
            /\ \A q \in DOMAIN store : (q.coll = "results" /\ q # key) => store'[q] = store[q]
      ]_vars

\* C9 witness: two runs have completed, for a one-digit round and for round
\* MaxRound; both results documents exist under their padded keys, the later one
\* with two result rows.
C9_Witness ==
    \E i \in Invocations :
        /\ pc[i] = "done" /\ Len(Extracted(i, "results")) = 1
        /\ ResultsPath(<<"2", "0", "2", "6", "_", "0", "1">>) \in DOMAIN store
        /\ ResultsPath(ExpectedKey(MaxRound)) \in DOMAIN store
        /\ store[ResultsPath(ExpectedKey(MaxRound))].updatedAt = 2
        /\ Len(store[ResultsPath(ExpectedKey(MaxRound))].results) = 2

\* C10: after an accepted commit of an invocation that fetched a standings list,
\* standings/drivers (resp. standings/constructors) is exactly the document of
\* that fetch: its round, its entries in order, and nothing from an earlier run.
C10_StandingsReplacedWholesale ==
    [][\A i \in Invocations :
         (CommitAnswered(i) /\ pc'[i] = "done") => StandingsCommitted(i)]_vars

\* C10 witness: standings/drivers written by the first run with two entries has
\* been overwritten by the second run with a single entry of a later round.
C10_Witness ==
    \E i \in Invocations :
        /\ pc[i] = "done"
        /\ Len(written) = 2
        /\ DriversPath \in written[1] /\ DriversPath \in written[2]
        /\ ConstructorsPath \in written[1] /\ ConstructorsPath \notin written[2]
        /\ Len(store[DriversPath].standings) = 1
        /\ Len(store[ConstructorsPath].standings) = 2
        /\ store[DriversPath].round = MaxRound
        /\ store[ConstructorsPath].round = 1

\* the documents of the target that source s feeds
TargetDocs(st, s) ==
    {q \in DOMAIN st : IF s = "results" THEN q.coll = "results" ELSE q = StandingsPath(s)}

\* the fetch of source s was answered, and the answer carries no data
NoData(i, s) == fetched[i][s].status = "fulfilled" /\ Len(Extracted(i, s)) = 0

TargetUntouched(s) ==
    /\ TargetDocs(store', s) = TargetDocs(store, s)
    /\ \A q \in TargetDocs(store, s) : store'[q] = store[q]

\* the entries a stored document holds (results of a race, or standings)
Entries(doc) == IF "results" \in DOMAIN doc THEN doc.results ELSE doc.standings

WithoutTimestamp(doc) == [doc EXCEPT !.updatedAt = 0]

\* this run was fetched from the same provider data as the previous commit, and
\* stages writes for targets that commit wrote
RerunOfLastCommit(i) ==
    /\ Len(written) > 0
    /\ seen[Len(seen)] = provider
    /\ BatchPaths(batch[i]) \subseteq written[Len(written)]

\* C12: syncF1Data is idempotent. A run that commits against the provider data
\* of the previous commit leaves every document of results/*, standings/drivers
\* and standings/constructors with the content it had, updatedAt excepted, and
\* creates no document.
C12_RerunIsIdempotent ==
    [][\A i \in Invocations :
          CommitAnswered(i) /\ pc'[i] = "done" /\ RerunOfLastCommit(i) =>
              /\ DOMAIN store' = DOMAIN store
              /\ \A q \in DOMAIN store :
                    WithoutTimestamp(store'[q]) = WithoutTimestamp(store[q])]_vars

\* two commits built from the same provider data wrote the same three documents;
\* each carries the second commit's timestamp
C12_Witness ==
    \E i \in Invocations :
        /\ pc[i] = "done"
        /\ Len(seen) = 2 /\ seen[1] = seen[2]
        /\ Len(written) = 2 /\ written[1] = written[2]
        /\ Cardinality(written[2]) = 3
        /\ \A q \in DOMAIN store : store[q].updatedAt = 2

\* C13: every invocation eventually finishes, as success ("done") or as reported
\* failure ("failed"), even when the provider answers no fetch: a pending fetch
\* is abandoned by its abort timer, and the timer of every settled fetch has been
\* cleared.
C13_InvocationFinishes ==
    /\ \A i \in Invocations : (pc[i] = "fetching") ~> (pc[i] \in {"done", "failed"})
    /\ [](\A i \in Invocations, s \in Sources :
            /\ fetched[i][s] # Pending => timer[i][s] # "armed"
            /\ pc[i] = "done" => timer[i][s] = "cleared")

\* an invocation failed on the abandoned fetch of one source while the other two
\* fetches were answered; all three timers are cleared
C13_Witness ==
    \E i \in Invocations :
        /\ pc[i] = "failed" /\ err[i] = "fetch"
        /\ fetched[i]["results"] = Rejected
        /\ fetched[i]["drivers"].status = "fulfilled"
        /\ fetched[i]["constructors"].status = "fulfilled"
        /\ \A s \in Sources : timer[i][s] = "cleared"

(***************************************************************************)
(* Properties of the Standings page                                        *)
(***************************************************************************)
\* the value a read returned reflects the commit stamped k
Reflects(value, k) == value.exists /\ value.data.updatedAt >= k

\* C4: a reader of the documents of one cycle sees all of that cycle's writes or
\* none: for every commit that wrote both standings documents, the loaded page
\* reflects that commit in both documents or in neither.
C4_NoHalfUpdatedRead ==
    ~reader.loading =>
        \A k \in 1..Len(written) :
            (DriversPath \in written[k] /\ ConstructorsPath \in written[k]) =>
                (Reflects(reader.drivers, k) <=> Reflects(reader.constructors, k))

(***************************************************************************)
(* Properties of askF1Expert                                               *)
(***************************************************************************)
AllowList ==
    {"https://f1.vanemmerik.ai", "https://f1-fan-hub-b9098.web.app",
     "https://f1-fan-hub-b9098.firebaseapp.com", "http://localhost:5173"}

\* the request carries "Bearer " followed by a token Firebase Auth accepts
CredentialOk(r) ==
    /\ Len(r.authorization) > 7
    /\ SubSeq(r.authorization, 1, 7) = <<"B", "e", "a", "r", "e", "r", " ">>
    /\ SubSeq(r.authorization, 8, Len(r.authorization)) \in ValidTokens

Responded == served > 0 /\ handler.pc = "responded"

\* C5 (as stated): every request without a bearer credential, or with one that
\* fails verification, is answered with 401 and causes no model call; a model call
\* is made only after verifyIdToken succeeded for the request.
C5_NoCredentialIs401 ==
    served > 0 =>
        /\ (~CredentialOk(req) /\ Responded) => res.status = 401
        /\ ~CredentialOk(req) => handler.modelCalls = 0
        /\ handler.modelCalls > 0 => handler.uid # "null"

\* C5 (amended): every POST request without a bearer credential, or with one that
\* fails verification, is answered with 401; no request of any method without a
\* verified credential causes a model call; a model call is made only after
\* verifyIdToken succeeded for the request.
C5_UnauthenticatedPostIs401 ==
    served > 0 =>
        /\ (req.method = "POST" /\ ~CredentialOk(req) /\ Responded) => res.status = 401
        /\ ~CredentialOk(req) => handler.modelCalls = 0
        /\ handler.modelCalls > 0 =>
              /\ handler.uid # "null"
              /\ handler.verifyCalls = 1
              /\ CredentialOk(req)

\* C5 witness: a POST from an allowed origin with a well-formed body and a forged
\* bearer token went through verifyIdToken and was answered 401 without a model
\* call.
C5_Witness ==
    /\ Responded
    /\ req.method = "POST"
    /\ req.origin = "https://f1.vanemmerik.ai"
    /\ req.authorization = BearerPrefix \o <<"x">>
    /\ ~BadMessages(req.messages)
    /\ handler.verifyCalls = 1
    /\ res.status = 401
    /\ handler.modelCalls = 0

\* C6: a POST whose Origin header is not in the allow-list never results in a
\* model call, whatever credential and body it carries.
C6_DisallowedOriginNeverReachesModel ==
    (served > 0 /\ req.method = "POST" /\ req.origin \notin AllowList) =>
        handler.modelCalls = 0

\* C7: an OPTIONS preflight is answered at once with 204, without token
\* verification or model call, and the response carries an
\* Access-Control-Allow-Origin header only when the request's Origin is in the
\* allow-list, and then with that Origin as its value.
C7_PreflightHasNoSideEffects ==
    (served > 0 /\ req.method = "OPTIONS") =>
        /\ handler.pc = "responded"
        /\ res.status = 204
        /\ handler.verifyCalls = 0
        /\ handler.modelCalls = 0
        /\ handler.uid = "null"
        /\ ("Access-Control-Allow-Origin" \in DOMAIN res.headers <=> req.origin \in AllowList)
        /\ "Access-Control-Allow-Origin" \in DOMAIN res.headers =>
              res.headers["Access-Control-Allow-Origin"] = req.origin

\* C7 witness: a preflight from a disallowed origin, carrying a genuine bearer
\* token, has been answered 204 without an allow-origin header.
C7_Witness ==
    /\ Responded
    /\ req.method = "OPTIONS"
    /\ req.origin = "https://evil.example"
    /\ req.authorization = BearerPrefix \o <<"g">>
    /\ res.status = 204
    /\ "Access-Control-Allow-Origin" \notin DOMAIN res.headers
    /\ "Access-Control-Allow-Methods" \in DOMAIN res.headers

(***************************************************************************)
(* Properties of the chat proxy's reply handling                           *)
(***************************************************************************)
\* the request was answered after the model returned at least one candidate
Answered ==
    /\ Responded
    /\ "candidates" \in DOMAIN handler.result
    /\ Len(handler.result.candidates) > 0

ResultParts == handler.result.candidates[1].content.parts

\* the text of the last part of the model's reply, and the text before it
LastPart == ResultParts[Len(ResultParts)].text

FrontText == JoinParts(SubSeq(ResultParts, 1, Len(ResultParts) - 1))

\* C14: for every model reply that ends in a well-formed fact marker, raw or
\* fenced, the response is 200 with newFacts equal to the marker's array and with
\* a reply equal to the model text without that trailing marker (white space
\* around the remaining text is not counted).
C14_WellFormedMarkerExtracted ==
    Answered =>
        \A m \in WellFormedMarkers :
            LastPart = m.text =>
                /\ res.status = 200
                /\ res.body.newFacts = m.facts
                /\ Trim(res.body.reply) = Trim(FrontText)

\* C15: for every model reply whose trailing marker is malformed (no JSON, or no
\* array under newFacts), the response is 200 with newFacts empty and with the
\* full model text as reply.
C15_MalformedMarkerKeepsText ==
    Answered =>
        (LastPart \in MalformedMarkers =>
            /\ res.status = 200
            /\ res.body.newFacts = <<>>
            /\ res.body.reply = JoinParts(ResultParts))

\* the web URIs of a chunk list, and where each one occurs first
WebUris(chunks) ==
    {chunks[j].web.uri : j \in {x \in 1..Len(chunks) : "web" \in DOMAIN chunks[x]}} \ {<<>>}

FirstChunkWith(chunks, uri) ==
    CHOOSE j \in 1..Len(chunks) :
        /\ "web" \in DOMAIN chunks[j] /\ chunks[j].web.uri = uri
        /\ \A x \in 1..(j - 1) : ~("web" \in DOMAIN chunks[x] /\ chunks[x].web.uri = uri)

\* C16: for every list of grounding chunks the returned sources hold no URL
\* twice, are at most 5, come only from chunks with a web URI, and stand in the
\* order in which their URLs first occur in the chunks; they are the first URLs
\* of that order (all of them when there are fewer than 5).
C16_SourcesDedupedAndCapped ==
    (Answered /\ res.status = 200) =>
        LET chunks == GroundingChunks(handler.result.candidates[1])
            sources == res.body.sources
        IN /\ \A a, b \in 1..Len(sources) : a # b => sources[a].url # sources[b].url
           /\ Len(sources) <= 5
           /\ \A a \in 1..Len(sources) : sources[a].url \in WebUris(chunks)
           /\ \A a, b \in 1..Len(sources) :
                 a < b => FirstChunkWith(chunks, sources[a].url)
                            < FirstChunkWith(chunks, sources[b].url)
           /\ \A uri \in WebUris(chunks) \ {sources[a].url : a \in 1..Len(sources)} :
                 /\ Len(sources) = 5
                 /\ \A a \in 1..Len(sources) :
                       FirstChunkWith(chunks, sources[a].url) < FirstChunkWith(chunks, uri)

\* a reply grounded in more than five distinct pages, with a repeated URL and a
\* chunk without web URI among the chunks, was answered with five sources
C16_Witness ==
    /\ Answered
    /\ res.status = 200
    /\ LET chunks == GroundingChunks(handler.result.candidates[1]) IN
       /\ Cardinality(WebUris(chunks)) > 5
       /\ \E j \in 1..Len(chunks) : "web" \notin DOMAIN chunks[j]
       /\ \E j, k \in 1..Len(chunks) :
             j < k /\ "web" \in DOMAIN chunks[j] /\ chunks[j] = chunks[k]
    /\ Len(res.body.sources) = 5

\* the model call of the request failed: it threw, or returned no candidate
ModelFailed ==
    \/ handler.result = Threw
    \/ "candidates" \in DOMAIN handler.result /\ Len(handler.result.candidates) = 0

\* C17: a failed model call or a response without candidate is answered with a
\* 5xx; a 5xx is sent only to requests that passed authentication, a 401 only to
\* requests whose credential is missing or invalid; a response once sent is the
\* request's only one.
C17_ErrorsDistinguishable ==
    /\ [](Responded =>
            /\ ModelFailed => res.status = 500
            /\ res.status >= 500 =>
                  /\ CredentialOk(req) /\ handler.uid # "null"
                  /\ handler.verifyCalls = 1 /\ ModelFailed
            /\ res.status = 401 => ~CredentialOk(req) /\ handler.modelCalls = 0)
    /\ [](served > 0 => (res.status # 0 <=> handler.pc = "responded"))
    /\ [][(res.status # 0 /\ served' = served) => res' = res]_vars

\* the second request of a session passed authentication and was answered 500
\* because the model call threw
C17_Witness ==
    /\ Responded
    /\ served = 2
    /\ req.method = "POST"
    /\ CredentialOk(req)
    /\ handler.result = Threw
    /\ res.status = 500

\* the body of the request holds no non-empty messages array
NoTurns(r) == r.messages.t # "array" \/ Len(r.messages.v) = 0

\* C18: an authenticated POST whose messages are missing, not an array or empty
\* is answered 400 without a model call; the model is only called with a
\* non-empty list of turns, the last one as the new message and the earlier ones,
\* in order, as history.
C18_BadBodyIs400 ==
    served > 0 =>
        /\ (req.method = "POST" /\ CredentialOk(req) /\ NoTurns(req)
              /\ handler.pc # "verifying") =>
                 Responded /\ res.status = 400 /\ handler.modelCalls = 0
        /\ handler.modelCalls > 0 =>
              /\ ~NoTurns(req)
              /\ LET turns == req.messages.v IN
                 /\ handler.chat.message = turns[Len(turns)].text
                 /\ Len(handler.chat.history) = Len(turns) - 1
                 /\ \A k \in 1..(Len(turns) - 1) :
                       /\ handler.chat.history[k].role = turns[k].role
                       /\ handler.chat.history[k].parts = <<[text |-> turns[k].text]>>

\* an authenticated POST with an empty messages array was answered 400
C18_Witness ==
    /\ Responded
    /\ req.method = "POST"
    /\ CredentialOk(req)
    /\ req.messages.t = "array"
    /\ Len(req.messages.v) = 0
    /\ handler.uid = "uid-1"
    /\ res.status = 400
    /\ handler.modelCalls = 0

\* C19: at most one model call is made per request; the step that ends a model
\* call ends the request, and a call that failed is answered with the error
\* response without another call.
C19_NoRetry ==
    /\ [](handler.modelCalls <= 1)
    /\ [](handler.result = Threw =>
            Responded /\ res.status = 500 /\ handler.modelCalls = 1)
    /\ [][(handler.pc = "calling" /\ handler' # handler) =>
            /\ handler'.pc = "responded"
            /\ handler'.modelCalls = handler.modelCalls
            /\ res'.status # 0]_vars

\* the first request's only model call threw and the request was answered 500
C19_Witness ==
    /\ Responded
    /\ served = 1
    /\ handler.result = Threw
    /\ handler.modelCalls = 1
    /\ res.status = 500
    /\ res.body = ErrorBody("AI service error. Please try again.")

(***************************************************************************)
(* Properties of sign-in                                                   *)
(***************************************************************************)
\* session c's signInWithGoogle returns in this step
SignInReturns(c) == session[c].pc \in {"reading", "creating"} /\ session'[c].pc = "signedIn"

\* C20: signInWithGoogle creates the profile only when it is absent and never
\* overwrites or drops a field of an existing profile, for any interleaving of
\* two sign-ins of one uid or of a sign-in with setFavouriteDriver.
C20_SignInKeepsProfile ==
    [][\A c \in Sessions :
          (SignInReturns(c) /\ users[SessionUid].exists) =>
              users'[SessionUid] = users[SessionUid]]_vars

(***************************************************************************)
(* Properties of the app shell                                             *)
(***************************************************************************)
\* C21: nothing of the routes (navbar, page, footer, redirect) is on the screen
\* while loading is true or user is null; with user null the screen shows at
\* most the login wall; and AuthProvider's children are on the screen only
\* after the first onAuthStateChanged callback has run
C21_GatedBehindSignIn ==
    /\ (gate.loading \/ gate.user = NoUser) => gate.screen \cap RouteContent = {}
    /\ gate.user = NoUser => gate.screen \subseteq {"LoginWall"}
    /\ gate.screen # {} => gate.called

\* the callback reported no session while the location is a protected page:
\* the login wall is all there is
C21_Witness ==
    /\ gate.called
    /\ gate.user = NoUser
    /\ gate.path = "/predictions"
    /\ gate.screen = {"LoginWall"}

(***************************************************************************)
(* Properties of the submit handlers                                       *)
(***************************************************************************)
\* the addDoc calls made so far, answered or still in flight
CommentCalls == commentDocs.docs \o [k \in DOMAIN commentDocs.pending |->
                    [data |-> commentDocs.pending[k].data,
                     user |-> commentDocs.pending[k].user,
                     typed |-> commentDocs.pending[k].typed]]

PredictionCalls == predictionDocs.docs \o predictionDocs.pending

\* C22: every comment and every prediction handed to addDoc by the submit
\* handlers has as userId the uid of the user who was signed in when it was
\* submitted, and a comment is submitted only by a signed-in user whose input,
\* trimmed, is not empty
C22_SubmissionsCarrySignedInUser ==
    /\ \A k \in DOMAIN CommentCalls :
          /\ CommentCalls[k].user \in Accounts
          /\ CommentCalls[k].data.userId = CommentCalls[k].user.uid
          /\ Trim(CommentCalls[k].typed) # <<>>
    /\ \A k \in DOMAIN PredictionCalls :
          /\ PredictionCalls[k].user \in Accounts
          /\ PredictionCalls[k].data.userId = PredictionCalls[k].user.uid

\* Bob's comment, typed with a leading blank, and Alice's pick both exist
C22_Witness ==
    /\ \E k \in DOMAIN commentDocs.docs :
          /\ commentDocs.docs[k].user = Bob
          /\ commentDocs.docs[k].typed = <<SP>> \o Words
          /\ commentDocs.docs[k].data.text = Words
    /\ \E k \in DOMAIN predictionDocs.docs :
          /\ predictionDocs.docs[k].user = Alice
          /\ predictionDocs.docs[k].data.userId = SessionUid

(***************************************************************************)
(* Properties of the results key                                           *)
(***************************************************************************)
ResultsDocs == {q \in DOMAIN store : q.coll = "results"}

\* C23: for every round, the key getRaceResult reads is the key syncF1Data writes
\* for that round (season, underscore, round padded to two digits), distinct
\* rounds have distinct keys, the store holds at most one results document per
\* round, and what the race page gets is the document written for its round
C23_ReaderUsesWriterKey ==
    /\ \A r \in 1..MaxRound :
          /\ ResultId(SEASON, r) = DocId(StringOf(r))
          /\ ResultId(SEASON, r) = ExpectedKey(r)
          /\ \A q \in 1..MaxRound : q # r => ResultId(SEASON, q) # ResultId(SEASON, r)
    /\ \A p, q \in ResultsDocs : store[p].round = store[q].round => p = q
    /\ detail.pc = "shown" =>
          IF detail.result.exists
          THEN /\ detail.result.data.round = detail.round
               /\ ResultsPath(detail.result.id) \in ResultsDocs
          ELSE TRUE
    /\ detail.pc = "reading" =>
          (getRaceResult(store, SEASON, detail.round).exists
             <=> \E q \in ResultsDocs : store[q].round = detail.round)

\* the page of round 1 shows the result the sync job stored under the padded key
C23_Witness ==
    /\ detail.pc = "shown"
    /\ detail.round = 1
    /\ detail.result.exists
    /\ detail.result.id = <<"2", "0", "2", "6", "_", "0", "1">>

(***************************************************************************)
(* Properties of the comments subscription                                 *)
(***************************************************************************)
\* the listener the section's effect registered last
OwnListener ==
    [id |-> section.unsubscribe, raceId |-> section.raceId, gen |-> section.gen]

OneSubscription ==
    commentDocs.listeners = IF section.mounted THEN {OwnListener} ELSE {}

\* this step is a snapshot callback setting the section's comments
Delivered == section'.last # NoSub /\ section' # section /\ section'.last # section.last

DeliveredByOwn ==
    Delivered => /\ section'.last \in commentDocs'.listeners
                 /\ section'.last.raceId = section'.raceId

\* C24: a mounted CommentSection has exactly one registered comments listener,
\* the one for its current raceId, an unmounted one has none (nothing leaks when
\* raceId changes or the component unmounts), and the comments shown are only
\* ever set by the listener that is registered for the current raceId
C24_OneLiveSubscription == [](OneSubscription) /\ [][DeliveredByOwn]_vars

\* after raceId changed, the listener of the new race has delivered its comments
C24_Witness ==
    /\ section.mounted
    /\ section.unsubscribe > 1
    /\ section.last = OwnListener
    /\ section.comments # <<>>

(***************************************************************************)
(* Properties of the Predictions page                                      *)
(***************************************************************************)
\* the race of an addPrediction call of the page that is on the screen
InFlight(raceId) ==
    /\ page.mounted
    /\ \E k \in DOMAIN predictionDocs.pending :
          /\ predictionDocs.pending[k].gen = page.gen
          /\ predictionDocs.pending[k].data.raceId = raceId

\* no Lock In button that can be clicked is shown for the race
CannotSubmit(raceId) ==
    page.predictions[raceId] # "" \/ LockInDisabled(page, raceId)

\* C26: while an addPrediction call for a race is in flight the race's Lock In
\* button cannot be clicked, whatever happens to the other races, and one page
\* session hands at most one prediction per race to addDoc
C26_OneSubmissionPerRace ==
    /\ \A raceId \in RaceIds :
          (InFlight(raceId) /\ page.selections[raceId] # "") => CannotSubmit(raceId)
    /\ \A j, k \in DOMAIN PredictionCalls :
          (/\ PredictionCalls[j].gen = PredictionCalls[k].gen
           /\ PredictionCalls[j].data.raceId = PredictionCalls[k].data.raceId) => j = k

(***************************************************************************)
(* Properties of overlapping invocations                                   *)
(***************************************************************************)
StandingsPaths == {DriversPath, ConstructorsPath}

\* C27: while the provider's round never decreases, no step of any invocation,
\* overlapping ones included, lowers the round stored in standings/drivers or
\* standings/constructors
C27_StoredRoundNeverDecreases ==
    [][\A q \in StandingsPaths :
         (q \in DOMAIN store /\ q \in DOMAIN store') => store'[q].round >= store[q].round]_vars

(***************************************************************************)
(* Properties of the chat client                                           *)
(***************************************************************************)
\* this step is the save of a sendMessage resolving
SendSaved == chat.call.stage = "saving" /\ chat'.call.stage = "none" /\ chat'.outcome = "saved"

\* this step is the save of a clearChat resolving
ClearSaved ==
    /\ memory.queue # <<>>
    /\ Head(memory.queue).by = "clear"
    /\ memory'.queue = Tail(memory.queue)
    /\ <<memory'.facts, memory'.recentMessages>> =
         <<Head(memory.queue).facts, Head(memory.queue).recentMessages>>
    /\ chat' = chat

WindowBounded ==
    /\ Len(memory.recentMessages) <= RecentWindow
    /\ \A k \in DOMAIN memory.queue : Len(memory.queue[k].recentMessages) <= RecentWindow

SavedIsShownSuffix ==
    SendSaved => memory'.recentMessages = SliceLast(chat'.messages, RecentWindow)

Sending == chat.call.stage # "none"

LoadingWhileSending == chat.loading <=> Sending

\* this step starts a request to the proxy
RequestStarted == chat'.call.stage = "calling" /\ chat.call.stage # "calling"

\* this step is clearChat
Cleared ==
    /\ Len(memory'.queue) = Len(memory.queue) + 1
    /\ memory'.queue[Len(memory'.queue)].by = "clear"

\* this step is the catch block of sendMessage
SendFailed == Sending /\ chat'.call.stage = "none" /\ chat'.outcome = "failed"

OneRequestAtATime ==
    /\ RequestStarted => ~chat.loading /\ ~Sending
    /\ Cleared => ~chat.loading /\ ~Sending
    /\ SendFailed => chat'.messages = chat.call.pre /\ ~chat'.loading

\* C28: loading is true exactly from sendMessage's start until its proxy call
\* and its save have settled, whether they succeeded or failed; while it is true
\* no second request starts and clearChat does not run; and when the call or the
\* save fails the transcript on display is the one from before the send
C28_LoadingGuardsTheSend == [](LoadingWhileSending) /\ [][OneRequestAtATime]_vars

\* the reply arrived with a new fact but the save failed: the transcript is back
\* to the greeting it showed before the send
C28_Witness ==
    /\ chat.outcome = "failed"
    /\ ~chat.loading
    /\ chat.facts # <<>>
    /\ memory.facts = <<>>
    /\ chat.messages = <<Greeting>>

Alternates(msgs) ==
    \A k \in 1..Len(msgs) : msgs[k].role = IF k % 2 = 1 THEN "user" ELSE "model"

\* C29: the message list of a request to the proxy is not empty, starts with a
\* user turn, alternates between user and model turns and ends with the user
\* message just entered, whatever opens, memory loads, sends, failures and
\* clears came before, also when the transcript was restored from the saved
\* window
C29_RequestAlternates ==
    Sending =>
      /\ Len(chat.call.sent) > 0
      /\ chat.call.sent[1].role = "user"
      /\ Alternates(chat.call.sent)
      /\ chat.call.sent[Len(chat.call.sent)] = Turn("user", Question)
      /\ chat.call.sent[Len(chat.call.sent)] = chat.call.next[Len(chat.call.next)]
      /\ Len(chat.call.next) = Len(chat.call.pre) + 1

\* a request made on a transcript restored from a saved window of 20 messages
C29_Witness ==
    /\ chat.call.stage = "calling"
    /\ Len(memory.recentMessages) = RecentWindow
    /\ chat.call.pre = memory.recentMessages
    /\ Len(chat.call.sent) = RecentWindow + 1

\* every fact saved before the step is still saved after it, in the same place
FactsKept ==
    /\ Len(memory'.facts) >= Len(memory.facts)
    /\ SubSeq(memory'.facts, 1, Len(memory.facts)) = memory.facts

SendKeepsFacts == SendSaved => FactsKept

ClearKeepsFacts == ClearSaved => memory'.recentMessages = <<>> /\ FactsKept

\* C30: the saved facts are never lost: the save of a successful sendMessage
\* stores a list that starts with the facts saved before, in their order, and
\* the save of a clearChat empties the saved transcript and keeps every fact
\* saved before
C30_SavedFactsNeverLost == [][SendKeepsFacts /\ ClearKeepsFacts]_vars

C30_SendNeverLosesFacts == [][SendKeepsFacts]_vars

C30_ClearNeverLosesFacts == [][ClearKeepsFacts]_vars

====
